---- MODULE Spec2Model ----
(***************************************************************************)
(* Scene-mode plugin: per-session scene state, character status and        *)
(* history in the SQLite store (core/scene_db.py), the status validation,   *)
(* decay and consistency rules (core/state_manager.py), the planner step    *)
(* (core/scene_generator.py, core/utils.py), the message handler           *)
(* (handlers/scene_handler.py) and the /sc commands (commands/).            *)
(*                                                                         *)
(* Chinese string literals of the source are written in pinyin, because    *)
(* the module is ASCII; each definition names the literal it stands for.   *)
(* Python values of the loosely typed maps are tagged records              *)
(* [t |-> type, v |-> value]; a dict is a function with a string domain.   *)
(* Numbers are modelled as integers.                                       *)
(***************************************************************************)
EXTENDS Integers, Sequences, FiniteSets, TLC

VARIABLES
    scene,      \* scene_states table: session id -> row or NoRow
    status,     \* character_status table: session id -> row or NoRow
    history,    \* scene_history table: session id -> rows, oldest first
    now,        \* wall clock, in minutes
    last,       \* record of the last operation: its inputs and results
    admin_mode_enabled, \* SceneAdminCommand._admin_mode_enabled: chat key -> bool
    inflight,   \* the turns of SceneFormatHandler.execute that await their reply
    llm,        \* the call of LLMClient._chat_completion in progress
    sched       \* the calendar, the schedule metadata and the scheduler of the process

vars == <<scene, status, history, now, last, admin_mode_enabled, inflight, llm, sched>>

----------------------------------------------------------------------------
(* Python values *)

IntV(n) == [t |-> "int", v |-> n]
StrV(s) == [t |-> "str", v |-> s]
BoolV(b) == [t |-> "bool", v |-> b]
ListV(l) == [t |-> "list", v |-> l]
DictV(d) == [t |-> "dict", v |-> d]

EmptyDict == <<>>

\* isinstance(value, (int, float)); a Python bool is an int
IsNumber(x) == x.t \in {"int", "bool"}
NumOf(x) == IF x.t = "bool" THEN (IF x.v THEN 1 ELSE 0) ELSE x.v

\* Python truthiness
Truthy(x) ==
    CASE x.t = "int" -> x.v # 0
      [] x.t = "bool" -> x.v
      [] x.t = "str" -> x.v # ""
      [] x.t = "list" -> Len(x.v) > 0
      [] x.t = "dict" -> DOMAIN x.v # {}
      [] OTHER -> FALSE

\* dict.get(key, default)
Get(d, k, dflt) == IF k \in DOMAIN d THEN d[k] ELSE dflt
\* x or default, for numbers
OrDefault(x, d) == IF x = 0 THEN d ELSE x

Max(a, b) == IF a >= b THEN a ELSE b
Min(a, b) == IF a <= b THEN a ELSE b

\* one optional entry of a dict under construction
Opt(cond, k, val) == IF cond THEN (k :> val) ELSE EmptyDict

RECURSIVE SeqJoin(_, _)
SeqJoin(parts, sep) ==
    IF Len(parts) = 0 THEN ""
    ELSE IF Len(parts) = 1 THEN parts[1]
    ELSE parts[1] \o sep \o SeqJoin(Tail(parts), sep)

\* re.sub(r"\s+", "", s)
RECURSIVE RemoveWhitespace(_)
RemoveWhitespace(s) ==
    IF s = "" THEN ""
    ELSE LET c == SubSeq(s, 1, 1)
             rest == SubSeq(s, 2, Len(s))
         IN IF c = " " THEN RemoveWhitespace(rest) ELSE c \o RemoveWhitespace(rest)

\* keyword in text
Contains(text, kw) ==
    \E i \in 1..(Len(text) - Len(kw) + 1) : SubSeq(text, i, i + Len(kw) - 1) = kw

\* json.dumps(value, ensure_ascii=False); dict entries in one fixed order
RECURSIVE JsonDumps(_), JsonDictItems(_)
JsonDumps(x) ==
    CASE x.t = "str" -> "\"" \o x.v \o "\""
      [] x.t = "int" -> ToString(x.v)
      [] x.t = "bool" -> (IF x.v THEN "true" ELSE "false")
      [] x.t = "list" -> "[" \o SeqJoin([i \in 1..Len(x.v) |-> JsonDumps(x.v[i])], ", ") \o "]"
      [] x.t = "dict" -> "{" \o JsonDictItems(x.v) \o "}"
      [] OTHER -> "null"
JsonDictItems(d) ==
    IF DOMAIN d = {} THEN ""
    ELSE LET k == CHOOSE j \in DOMAIN d : TRUE
             rest == [j \in DOMAIN d \ {k} |-> d[j]]
             item == "\"" \o k \o "\": " \o JsonDumps(d[k])
         IN IF DOMAIN rest = {} THEN item ELSE item \o ", " \o JsonDictItems(rest)

\* str(value)
PyStr(x) ==
    CASE x.t = "str" -> x.v
      [] x.t = "int" -> ToString(x.v)
      [] x.t = "bool" -> (IF x.v THEN "True" ELSE "False")
      [] OTHER -> JsonDumps(x)

----------------------------------------------------------------------------
(* core/state_manager.py: constants *)

SCENE_TYPE_NORMAL == "normal"
SCENE_TYPE_ROMANTIC == "romantic"
SCENE_TYPE_INTIMATE == "intimate"
SCENE_TYPE_EXPLICIT == "explicit"
SCENE_TYPE_REST == "rest"
SceneTypes == {SCENE_TYPE_NORMAL, SCENE_TYPE_ROMANTIC, SCENE_TYPE_INTIMATE,
               SCENE_TYPE_EXPLICIT, SCENE_TYPE_REST}

\* scene type -> <<min, max>> pleasure delta
SCENE_TYPE_PLEASURE_RANGES ==
    [normal |-> <<0, 5>>, romantic |-> <<5, 20>>, intimate |-> <<15, 40>>,
     explicit |-> <<30, 60>>, rest |-> <<-20, -5>>]

DECAY_NORMAL == 5
DECAY_ROMANTIC == 0
DECAY_REST == 15
TIME_DECAY_THRESHOLD == 30
TIME_DECAY_AMOUNT == 20

\* "正常", "微湿", "湿润", "淫湿", "爱液横流"
WETNESS_LEVELS == <<"zhengchang", "weishi", "shirun", "yinshi", "aiyehengliu">>
\* "放松", "轻微收缩", "无意识收缩", "紧绷", "痉挛"
VAGINAL_STATES == <<"fangsong", "qingweishousuo", "wuyishishousuo", "jinbeng", "jingluan">>
\* "未受孕", "受孕中"
PREGNANCY_VALUES == <<"weishouyun", "shouyunzhong">>

\* (30, "微湿"), (50, "湿润"), (70, "淫湿"), (90, "爱液横流")
PLEASURE_WETNESS_RULES ==
    << <<30, "weishi">>, <<50, "shirun">>, <<70, "yinshi">>, <<90, "aiyehengliu">> >>

\* "高潮后的余韵中颤抖"
CLIMAX_TEXT == "gaochao_hou_de_yuyun_zhong_chandou"
\* "呼吸平稳"
DEFAULT_PHYSIO == "huxi_pingwen"

InSeq(x, s) == \E i \in 1..Len(s) : s[i] = x
\* list.index(x) of Python, turned 0-based
IndexOf(x, s) == (CHOOSE i \in 1..Len(s) : s[i] = x) - 1

\* the characters kept of a physiological_state text
PHYSIO_MAX_LEN == 100

----------------------------------------------------------------------------
(* StateManager.validate_state_decision *)

\* decision keys: "地点变化", "新地点", "着装变化", "新着装", "角色状态更新"
K_LOC_CHANGED == "didianbianhua"
K_NEW_LOC == "xindidian"
K_CLOTH_CHANGED == "zhuozhuangbianhua"
K_NEW_CLOTH == "xinzhuozhuang"
K_UPDATES == "juesezhuangtaigengxin"

\* decision.get("角色状态更新", {})
UpdatesOf(decision) ==
    IF K_UPDATES \in DOMAIN decision THEN decision[K_UPDATES].v ELSE EmptyDict

\* a numeric update of the field is present
NumericUpdate(su, f) == f \in DOMAIN su /\ IsNumber(su[f])

\* 1. pleasure_value: single step within [-100, 60]
PleasureClamped(su) ==
    LET value == NumOf(su["pleasure_value"])
    IN IF value > 60 THEN 60 ELSE IF value < -100 THEN -100 ELSE value

PleasureThreshold(cur) == OrDefault(Get(cur, "pleasure_threshold", 100), 100)

\* new_pleasure >= threshold: the climax reset is triggered
ClimaxTriggered(su, cur) ==
    /\ NumericUpdate(su, "pleasure_value")
    /\ OrDefault(Get(cur, "pleasure_value", 0), 0) + PleasureClamped(su) >= PleasureThreshold(cur)

\* variant: the clamped delta is kept when the threshold is reached
ValidatedPleasureNoReset(su, cur) == PleasureClamped(su)

ValidatedPleasure(su, cur) ==
    LET current_pleasure == OrDefault(Get(cur, "pleasure_value", 0), 0)
        threshold == PleasureThreshold(cur)
    IN IF ClimaxTriggered(su, cur)
       THEN -current_pleasure + (threshold \div 4)
       ELSE PleasureClamped(su)

\* variant: the step is clamped, the headroom up to 100 is not
ValidatedCorruptionNoHeadroom(su, cur) ==
    LET raw == NumOf(su["corruption_level"])
    IN IF raw > 20 THEN 20 ELSE IF raw < 0 THEN 0 ELSE raw

\* 2. corruption_level: never decreases, at most +20, at most up to 100
ValidatedCorruption(su, cur) ==
    LET raw == NumOf(su["corruption_level"])
        value == IF raw > 20 THEN 20 ELSE IF raw < 0 THEN 0 ELSE raw
        current_corruption == OrDefault(Get(cur, "corruption_level", 0), 0)
    IN IF current_corruption + value > 100
       THEN Max(0, 100 - current_corruption)
       ELSE value

\* 3. semen_volume: step within [-500, 150], result within [0, 500]
ValidatedSemen(su, cur) ==
    LET raw == NumOf(su["semen_volume"])
        value == IF raw > 150 THEN 150 ELSE IF raw < -500 THEN -500 ELSE raw
        current_volume == OrDefault(Get(cur, "semen_volume", 0), 0)
        new_volume == current_volume + value
        value1 == IF new_volume < 0 THEN -current_volume ELSE value
    IN IF new_volume > 500 THEN Max(0, 500 - current_volume) ELSE value1

\* 4. physiological_state: str(), cut to 100 characters
ValidatedPhysio(su) ==
    LET value == PyStr(su["physiological_state"])
    IN IF Len(value) > PHYSIO_MAX_LEN THEN SubSeq(value, 1, PHYSIO_MAX_LEN) ELSE value

\* 9. anal_development: step within [-100, 20], result within [0, 100]
ValidatedAnal(su, cur) ==
    LET raw == NumOf(su["anal_development"])
        value == IF raw > 20 THEN 20 ELSE IF raw < -100 THEN -100 ELSE raw
        current_development == OrDefault(Get(cur, "anal_development", 0), 0)
        new_development == current_development + value
    IN IF new_development < 0 THEN -current_development
       ELSE IF new_development > 100 THEN Max(0, 100 - current_development)
       ELSE value

\* variant: the step is limited, the result is not brought into [50, 300]
ValidatedCapacityStepOnly(su, cur) ==
    LET raw == NumOf(su["vaginal_capacity"])
    IN IF raw > 40 THEN 40 ELSE IF raw < -100 THEN -100 ELSE raw

\* 10. vaginal_capacity: step within [-100, 40], result within [50, 300]
ValidatedCapacity(su, cur) ==
    LET raw == NumOf(su["vaginal_capacity"])
        value == IF raw > 40 THEN 40 ELSE IF raw < -100 THEN -100 ELSE raw
        current_capacity == OrDefault(Get(cur, "vaginal_capacity", 100), 100)
        new_capacity == current_capacity + value
    IN IF new_capacity < 50 THEN Max(-current_capacity, 50 - current_capacity)
       ELSE IF new_capacity > 300 THEN Min(value, 300 - current_capacity)
       ELSE value

\* list-valued JSON fields: a list is serialised, a str passes, others drop
ValidatedListField(su, f) ==
    IF f \in DOMAIN su /\ su[f].t = "list" THEN (f :> StrV(JsonDumps(su[f])))
    ELSE IF f \in DOMAIN su /\ su[f].t = "str" THEN (f :> su[f])
    ELSE EmptyDict

\* dict-valued JSON fields: a dict is serialised, a str passes, others drop
ValidatedDictField(su, f) ==
    IF f \in DOMAIN su /\ su[f].t = "dict" THEN (f :> StrV(JsonDumps(su[f])))
    ELSE IF f \in DOMAIN su /\ su[f].t = "str" THEN (f :> su[f])
    ELSE EmptyDict

\* variant: str(value) is kept whatever it is
ValidatedEnumFieldUnchecked(su, f, allowed) ==
    Opt(f \in DOMAIN su, f, StrV(PyStr(su[f])))

\* an enumerated field: str(value) is kept only if it is a legal value
ValidatedEnumField(su, f, allowed) ==
    Opt(f \in DOMAIN su /\ InSeq(PyStr(su[f]), allowed), f, StrV(PyStr(su[f])))

\* variant: every key of status_updates is kept
ValidatedUpdatesUnfiltered(su, cur) == su

\* the validated_updates dict built from status_updates
ValidatedUpdates(su, cur) ==
       \* 4. an explicit physiological_state is written after the climax text
       Opt("physiological_state" \in DOMAIN su, "physiological_state", StrV(ValidatedPhysio(su)))
    @@ Opt(ClimaxTriggered(su, cur), "physiological_state", StrV(CLIMAX_TEXT))
    @@ Opt(NumericUpdate(su, "pleasure_value"), "pleasure_value", IntV(ValidatedPleasure(su, cur)))
    @@ Opt(NumericUpdate(su, "corruption_level") /\ ValidatedCorruption(su, cur) > 0,
           "corruption_level", IntV(ValidatedCorruption(su, cur)))
    @@ Opt(NumericUpdate(su, "semen_volume"), "semen_volume", IntV(ValidatedSemen(su, cur)))
    @@ ValidatedEnumField(su, "vaginal_state", VAGINAL_STATES)
    @@ ValidatedEnumField(su, "vaginal_wetness", WETNESS_LEVELS)
    @@ ValidatedEnumField(su, "pregnancy_status", PREGNANCY_VALUES)
    @@ Opt("pregnancy_source" \in DOMAIN su, "pregnancy_source", StrV(PyStr(su["pregnancy_source"])))
    @@ Opt(NumericUpdate(su, "pregnancy_counter"), "pregnancy_counter", IntV(NumOf(su["pregnancy_counter"])))
    @@ ValidatedListField(su, "semen_sources")
    @@ ValidatedListField(su, "vaginal_foreign")
    @@ ValidatedListField(su, "inventory")
    @@ ValidatedDictField(su, "fetishes")
    @@ ValidatedDictField(su, "permanent_mods")
    @@ ValidatedDictField(su, "body_condition")
    @@ Opt(NumericUpdate(su, "anal_development"), "anal_development", IntV(ValidatedAnal(su, cur)))
    @@ Opt(NumericUpdate(su, "vaginal_capacity"), "vaginal_capacity", IntV(ValidatedCapacity(su, cur)))

validate_state_decision(decision, current_status) ==
    LET status_updates == UpdatesOf(decision)
    IN IF DOMAIN status_updates = {}
       THEN decision
       ELSE (K_UPDATES :> DictV(ValidatedUpdates(status_updates, current_status))) @@ decision

----------------------------------------------------------------------------
(* core/scene_db.py: the store *)

Chats == {"c1"}
Users == {"u1", "u2"}

\* f"{chat_id}:{user_part}"
build_session_id(chat_id, user_id) == chat_id \o ":" \o user_id
Sessions == {build_session_id(c, u) : c \in Chats, u \in Users}

\* a missing row (fetchone() returns None)
NoRow == [absent |-> TRUE]
\* a NULL column
NULL == "NULL"
\* a NULL timestamp
NoTime == -1

\* whitelist of the columns update_character_status writes
CHARACTER_STATUS_FIELDS ==
    {"body_condition", "physiological_state", "vaginal_state", "vaginal_wetness",
     "vaginal_capacity", "anal_development", "pregnancy_status", "pregnancy_source",
     "pregnancy_counter", "semen_volume", "semen_sources", "vaginal_foreign",
     "pleasure_value", "pleasure_threshold", "corruption_level", "fetishes",
     "permanent_mods", "inventory", "updated_at"}

\* column defaults of the character_status table
DefaultStatus ==
    [body_condition |-> "{}",
     physiological_state |-> DEFAULT_PHYSIO,
     vaginal_state |-> "fangsong",
     vaginal_wetness |-> "zhengchang",
     vaginal_capacity |-> 100,
     anal_development |-> 0,
     pregnancy_status |-> "weishouyun",
     pregnancy_source |-> NULL,
     pregnancy_counter |-> 0,
     semen_volume |-> 0,
     semen_sources |-> "[]",
     vaginal_foreign |-> "[]",
     pleasure_value |-> 0,
     pleasure_threshold |-> 100,
     corruption_level |-> 0,
     fetishes |-> "{}",
     permanent_mods |-> "{}",
     inventory |-> "[]"]

\* variant: INSERT OR REPLACE, the row is written in any case
init_character_status_replace(st, chat_id) == [st EXCEPT ![chat_id] = DefaultStatus]

\* INSERT OR IGNORE INTO character_status (chat_id); chat_id is UNIQUE
init_character_status(st, chat_id) ==
    IF st[chat_id] = NoRow THEN [st EXCEPT ![chat_id] = DefaultStatus] ELSE st

\* get_character_status(chat_id) or {}
StatusOrEmpty(st, chat_id) == IF st[chat_id] = NoRow THEN EmptyDict ELSE st[chat_id]

\* variant: the row is written anew, the fields not updated at their defaults
update_character_status_replacing(st, chat_id, updates) ==
    IF DOMAIN updates = {}
    THEN st
    ELSE LET fields == (DOMAIN updates \cap CHARACTER_STATUS_FIELDS) \cap DOMAIN DefaultStatus
         IN [st EXCEPT ![chat_id] =
                [f \in DOMAIN DefaultStatus |-> IF f \in fields THEN updates[f].v ELSE DefaultStatus[f]]]

\* UPDATE character_status SET <whitelisted fields> WHERE chat_id = ?
update_character_status(st, chat_id, updates) ==
    IF DOMAIN updates = {}
    THEN st
    ELSE LET st1 == init_character_status(st, chat_id)
             fields == (DOMAIN updates \cap CHARACTER_STATUS_FIELDS) \cap DOMAIN DefaultStatus
         IN [st1 EXCEPT ![chat_id] =
                [f \in DOMAIN DefaultStatus |-> IF f \in fields THEN updates[f].v ELSE st1[chat_id][f]]]

\* DELETE FROM character_status WHERE chat_id = ?
clear_character_status(st, chat_id) == [st EXCEPT ![chat_id] = NoRow]

\* a scene_states row as create_scene_state inserts it
SceneRow(location, clothing, scene_description, activity, user_id, t, nai_enabled) ==
    [enabled |-> 1, location |-> location, clothing |-> clothing,
     scene_description |-> scene_description, last_activity |-> activity,
     last_update_time |-> t, init_time |-> t, user_id |-> user_id,
     nai_enabled |-> nai_enabled]

\* INSERT OR REPLACE INTO scene_states, nai_enabled taken from the old row
create_scene_state(sc, chat_id, location, clothing, scene_description, activity, user_id, t) ==
    LET nai_enabled == IF sc[chat_id] = NoRow THEN 0 ELSE sc[chat_id].nai_enabled
    IN [sc EXCEPT ![chat_id] =
           SceneRow(location, clothing, scene_description, activity, user_id, t, nai_enabled)]

\* UPDATE scene_states SET location, clothing, scene_description, last_activity,
\* last_update_time WHERE chat_id = ?
update_scene_state(sc, chat_id, location, clothing, scene_description, activity, t) ==
    IF sc[chat_id] = NoRow THEN sc
    ELSE [sc EXCEPT ![chat_id] =
             [@ EXCEPT !.location = location, !.clothing = clothing,
                       !.scene_description = scene_description,
                       !.last_activity = activity, !.last_update_time = t]]

enable_scene(sc, chat_id) ==
    IF sc[chat_id] = NoRow THEN sc ELSE [sc EXCEPT ![chat_id].enabled = 1]

\* a disable that also forgets where the scene was
disable_scene_forgetting(sc, chat_id) ==
    IF sc[chat_id] = NoRow THEN sc
    ELSE [sc EXCEPT ![chat_id].enabled = 0, ![chat_id].location = NULL]

disable_scene(sc, chat_id) ==
    IF sc[chat_id] = NoRow THEN sc ELSE [sc EXCEPT ![chat_id].enabled = 0]

clear_scene_state(sc, chat_id) == [sc EXCEPT ![chat_id] = NoRow]

clear_scene_history(h, chat_id) == [h EXCEPT ![chat_id] = <<>>]

\* INSERT INTO scene_history
add_scene_history(h, chat_id, location, clothing, scene_description, user_message, bot_reply) ==
    [h EXCEPT ![chat_id] = Append(@,
        [location |-> location, clothing |-> clothing,
         scene_description |-> scene_description,
         user_message |-> user_message, bot_reply |-> bot_reply])]

\* variant: the rows are returned newest first
get_recent_history_newest_first(h, chat_id, limit) ==
    LET rows == h[chat_id]
        n == Min(Max(1, Min(limit, 100)), Len(rows))
    IN [i \in 1..n |-> rows[Len(rows) + 1 - i]]

\* SELECT ... WHERE chat_id = ? ORDER BY timestamp DESC LIMIT ?, reversed;
\* limit = max(1, min(limit, 100)). The rows of a session are kept in the
\* order of their timestamps
get_recent_history(h, chat_id, limit) ==
    LET rows == h[chat_id]
        newest_first == [i \in 1..Len(rows) |-> rows[Len(rows) + 1 - i]]
        fetched == SubSeq(newest_first, 1, Min(Max(1, Min(limit, 100)), Len(rows)))
    IN [i \in 1..Len(fetched) |-> fetched[Len(fetched) + 1 - i]]

get_nai_enabled(sc, chat_id) ==
    IF sc[chat_id] = NoRow THEN FALSE ELSE sc[chat_id].nai_enabled = 1

set_nai_enabled(sc, chat_id, enabled) ==
    IF sc[chat_id] # NoRow
    THEN [sc EXCEPT ![chat_id].nai_enabled = IF enabled THEN 1 ELSE 0]
    \* the row INSERTed when the session has none
    ELSE [sc EXCEPT ![chat_id] =
             [enabled |-> 0, location |-> NULL, clothing |-> NULL,
              scene_description |-> NULL, last_activity |-> NULL,
              last_update_time |-> NoTime, init_time |-> NoTime,
              user_id |-> NULL, nai_enabled |-> IF enabled THEN 1 ELSE 0]]

----------------------------------------------------------------------------
(* StateManager: preview, decay, consistency *)

NUMERIC_FIELDS ==
    {"pleasure_value", "corruption_level", "semen_volume", "anal_development",
     "vaginal_capacity"}

\* the decision with its status updates replaced
WithUpdates(decision, su) == (K_UPDATES :> DictV(su)) @@ decision

\* variant: every updated field is overwritten with the update value
apply_state_updates_preview_overwriting(current_status, state_decision) ==
    LET su == UpdatesOf(state_decision)
    IN [key \in DOMAIN current_status \cup DOMAIN su |->
          IF key \notin DOMAIN su THEN current_status[key] ELSE su[key].v]

\* a copy of current_status with the updates applied: the five numeric
\* fields are added to, every other key is overwritten
apply_state_updates_preview(current_status, state_decision) ==
    LET su == UpdatesOf(state_decision)
    IN [key \in DOMAIN current_status \cup DOMAIN su |->
          IF key \notin DOMAIN su THEN current_status[key]
          ELSE IF IsNumber(su[key]) /\ key \in NUMERIC_FIELDS
               THEN OrDefault(Get(current_status, key, 0), 0) + NumOf(su[key])
               ELSE su[key].v]

\* variant: every scene type decays like the normal one
SceneDecayAmountFlat(scene_type, current_pleasure) ==
    IF current_pleasure > 0 THEN DECAY_NORMAL ELSE 0

\* decay of the scene type when the decision has no pleasure delta
SceneDecayAmount(scene_type, current_pleasure) ==
    IF scene_type = SCENE_TYPE_NORMAL /\ current_pleasure > 0 THEN DECAY_NORMAL
    ELSE IF scene_type = SCENE_TYPE_REST /\ current_pleasure > 0 THEN DECAY_REST
    ELSE IF scene_type = SCENE_TYPE_ROMANTIC THEN DECAY_ROMANTIC
    ELSE 0

\* variant: a numeric delta is brought into the whole range of the scene type
apply_scene_decay_both_bounds(state_decision, scene_type, character_status) ==
    LET su == UpdatesOf(state_decision)
        range == SCENE_TYPE_PLEASURE_RANGES[scene_type]
    IN IF "pleasure_value" \in DOMAIN su /\ IsNumber(su["pleasure_value"])
       THEN WithUpdates(state_decision,
                ("pleasure_value" :>
                    IntV(Max(range[1], Min(range[2], NumOf(su["pleasure_value"]))))) @@ su)
       ELSE state_decision

apply_scene_decay(state_decision, scene_type, character_status) ==
    LET su == UpdatesOf(state_decision)
        current_pleasure == OrDefault(Get(character_status, "pleasure_value", 0), 0)
        max_range == IF scene_type \in DOMAIN SCENE_TYPE_PLEASURE_RANGES
                     THEN SCENE_TYPE_PLEASURE_RANGES[scene_type][2] ELSE 60
        decay == SceneDecayAmount(scene_type, current_pleasure)
    IN IF "pleasure_value" \in DOMAIN su
       THEN IF /\ IsNumber(su["pleasure_value"])
               /\ NumOf(su["pleasure_value"]) > 0
               /\ NumOf(su["pleasure_value"]) > max_range
            THEN WithUpdates(state_decision, ("pleasure_value" :> IntV(max_range)) @@ su)
            ELSE state_decision
       ELSE IF decay > 0 /\ current_pleasure > 0
            THEN WithUpdates(state_decision,
                     ("pleasure_value" :> IntV(-Min(decay, current_pleasure))) @@ su)
            ELSE state_decision

\* final_pleasure of ensure_status_consistency
FinalPleasure(su, current_status) ==
    LET current_pleasure == OrDefault(Get(current_status, "pleasure_value", 0), 0)
    IN IF "pleasure_value" \in DOMAIN su
       THEN IF IsNumber(su["pleasure_value"])
            THEN Max(0, current_pleasure + NumOf(su["pleasure_value"]))
            ELSE Max(0, current_pleasure)
       ELSE Max(0, current_pleasure + 0)

\* index of the updated, else current, wetness (0 when unknown)
FinalWetnessIdx(su, current_status) ==
    LET current_wetness == Get(current_status, "vaginal_wetness", "zhengchang")
        final_wetness == IF "vaginal_wetness" \in DOMAIN su
                         THEN su["vaginal_wetness"].v ELSE current_wetness
    IN IF InSeq(final_wetness, WETNESS_LEVELS) THEN IndexOf(final_wetness, WETNESS_LEVELS) ELSE 0

\* a loop that goes on to the highest threshold final_pleasure meets
RuleReachedHighest(final_pleasure) ==
    IF \E i \in 1..Len(PLEASURE_WETNESS_RULES) : final_pleasure >= PLEASURE_WETNESS_RULES[i][1]
    THEN CHOOSE i \in 1..Len(PLEASURE_WETNESS_RULES) :
            /\ final_pleasure >= PLEASURE_WETNESS_RULES[i][1]
            /\ \A j \in (i + 1)..Len(PLEASURE_WETNESS_RULES) :
                  ~(final_pleasure >= PLEASURE_WETNESS_RULES[j][1])
    ELSE 0

\* the rule at which the loop over PLEASURE_WETNESS_RULES stops: the first
\* one, in list order, whose threshold final_pleasure meets (0: none)
RuleReached(final_pleasure) ==
    IF \E i \in 1..Len(PLEASURE_WETNESS_RULES) : final_pleasure >= PLEASURE_WETNESS_RULES[i][1]
    THEN CHOOSE i \in 1..Len(PLEASURE_WETNESS_RULES) :
            /\ final_pleasure >= PLEASURE_WETNESS_RULES[i][1]
            /\ \A j \in 1..(i - 1) : ~(final_pleasure >= PLEASURE_WETNESS_RULES[j][1])
    ELSE 0

\* rule 1 raises the wetness (wetness_adjusted)
WetnessAdjusted(su, current_status) ==
    LET r == RuleReached(FinalPleasure(su, current_status))
    IN /\ r > 0
       /\ FinalWetnessIdx(su, current_status) < IndexOf(PLEASURE_WETNESS_RULES[r][2], WETNESS_LEVELS)

\* variant: rule 1.5 already acts on a delta of -10
WetnessLoweredFromTen(su, current_status) ==
    /\ ~WetnessAdjusted(su, current_status)
    /\ "pleasure_value" \in DOMAIN su
    /\ NumOf(su["pleasure_value"]) <= -10
    /\ FinalPleasure(su, current_status) < 30
    /\ FinalWetnessIdx(su, current_status) >= 2

\* rule 1.5 lowers the wetness by one level
WetnessLowered(su, current_status) ==
    /\ ~WetnessAdjusted(su, current_status)
    /\ "pleasure_value" \in DOMAIN su
    /\ NumOf(su["pleasure_value"]) < -10
    /\ FinalWetnessIdx(su, current_status) > 0
    /\ FinalPleasure(su, current_status) < 30
    /\ FinalWetnessIdx(su, current_status) >= 2

\* rule 2: the text of the pleasure tier ("" when below every tier)
PhysioTier(final_pleasure) ==
    \* "呼吸急促，身体剧烈颤抖", "呼吸急促，身体微微发热", "呼吸略微急促"
    IF final_pleasure >= 80 THEN "huxi_jicu_shenti_julie_chandou"
    ELSE IF final_pleasure >= 60 THEN "huxi_jicu_shenti_weiwei_fare"
    ELSE IF final_pleasure >= 40 THEN "huxi_lvewei_jicu"
    ELSE ""

\* variant: only the updated text is searched for the keywords
IsOrgasmStateOfUpdate(su, current_status) ==
    LET updated_physio == IF "physiological_state" \in DOMAIN su
                          THEN su["physiological_state"].v ELSE ""
    IN \E keyword \in {"gaochao", "yuyun", "chandou", "jingluan"} :
          Contains(updated_physio, keyword)

IsOrgasmState(su, current_status) ==
    LET updated_physio == IF "physiological_state" \in DOMAIN su
                          THEN su["physiological_state"].v ELSE ""
        current_physio == Get(current_status, "physiological_state", "")
    \* "高潮", "余韵", "颤抖", "痉挛"
    IN \E keyword \in {"gaochao", "yuyun", "chandou", "jingluan"} :
          Contains(updated_physio, keyword) \/ Contains(current_physio, keyword)

ensure_status_consistency(state_decision, current_status, scene_type) ==
    LET su == UpdatesOf(state_decision)
        final_pleasure == FinalPleasure(su, current_status)
        idx == FinalWetnessIdx(su, current_status)
        wetness ==
            IF WetnessAdjusted(su, current_status)
            THEN ("vaginal_wetness" :> StrV(PLEASURE_WETNESS_RULES[RuleReached(final_pleasure)][2]))
            ELSE IF WetnessLowered(su, current_status)
            THEN ("vaginal_wetness" :> StrV(WETNESS_LEVELS[Max(0, idx - 1) + 1]))
            ELSE EmptyDict
        physio ==
            Opt(/\ "physiological_state" \notin DOMAIN su
                /\ scene_type # SCENE_TYPE_REST
                /\ ~IsOrgasmState(su, current_status)
                /\ PhysioTier(final_pleasure) # "",
                "physiological_state", StrV(PhysioTier(final_pleasure)))
    IN WithUpdates(state_decision, wetness @@ physio @@ su)

----------------------------------------------------------------------------
(* The planner step *)

\* "角色状态", "状态更新": aliases of "角色状态更新", in the order tried
UPDATE_ALIASES == <<"juesezhuangtai", "zhuangtaigengxin">>

\* str.strip()
RECURSIVE StripLeft(_), StripRight(_)
StripLeft(s) ==
    IF s = "" THEN "" ELSE IF SubSeq(s, 1, 1) = " " THEN StripLeft(SubSeq(s, 2, Len(s))) ELSE s
StripRight(s) ==
    IF s = "" THEN ""
    ELSE IF SubSeq(s, Len(s), Len(s)) = " " THEN StripRight(SubSeq(s, 1, Len(s) - 1)) ELSE s
Strip(s) == StripRight(StripLeft(s))

\* str.lower() on the letters the planner outputs use
RECURSIVE Lower(_)
Lower(s) ==
    LET LowerChar(c) ==
        CASE c = "T" -> "t" [] c = "R" -> "r" [] c = "U" -> "u" [] c = "E" -> "e"
          [] c = "Y" -> "y" [] c = "S" -> "s" [] c = "F" -> "f" [] c = "A" -> "a"
          [] c = "L" -> "l" [] c = "N" -> "n" [] c = "O" -> "o"
          [] OTHER -> c
    IN IF s = "" THEN "" ELSE LowerChar(SubSeq(s, 1, 1)) \o Lower(SubSeq(s, 2, Len(s)))

\* SceneFormatHandler._clean_dict_spaces: whitespace removed from every key
\* and every string value, recursively
RECURSIVE clean_dict_spaces(_)
HandlerCleanValue(x) ==
    CASE x.t = "str" -> StrV(RemoveWhitespace(x.v))
      [] x.t = "dict" -> DictV(clean_dict_spaces(x.v))
      [] x.t = "list" ->
            ListV([i \in 1..Len(x.v) |->
                     IF x.v[i].t = "str" THEN StrV(RemoveWhitespace(x.v[i].v)) ELSE x.v[i]])
      [] OTHER -> x
\* (two keys that clean to the same key keep one of the values)
clean_dict_spaces(d) ==
    [ck \in {RemoveWhitespace(k) : k \in DOMAIN d} |->
        HandlerCleanValue(d[CHOOSE k \in DOMAIN d : RemoveWhitespace(k) = ck])]

\* the tail of both normalisers: "角色状态更新" taken from the first alias
\* present when it is missing, and forced to a dict
CanonicalUpdates(normalized) ==
    LET aliased ==
            IF K_UPDATES \in DOMAIN normalized THEN normalized
            ELSE IF \E i \in 1..Len(UPDATE_ALIASES) : UPDATE_ALIASES[i] \in DOMAIN normalized
            THEN LET i == CHOOSE i \in 1..Len(UPDATE_ALIASES) :
                            /\ UPDATE_ALIASES[i] \in DOMAIN normalized
                            /\ \A j \in 1..(i - 1) : UPDATE_ALIASES[j] \notin DOMAIN normalized
                 IN (K_UPDATES :> normalized[UPDATE_ALIASES[i]]) @@ normalized
            ELSE normalized
    IN IF K_UPDATES \in DOMAIN aliased /\ aliased[K_UPDATES].t = "dict"
       THEN aliased
       ELSE (K_UPDATES :> DictV(EmptyDict)) @@ aliased

\* SceneFormatHandler._normalize_planner_decision
Handler_normalize_planner_decision(decision) ==
    CanonicalUpdates(clean_dict_spaces(decision))

\* utils._clean_dict_key_spaces: keys cleaned, string values stripped
RECURSIVE clean_dict_key_spaces(_)
UtilsCleanValue(x) ==
    CASE x.t = "str" -> StrV(Strip(x.v))
      [] x.t = "dict" -> DictV(clean_dict_key_spaces(x.v))
      [] x.t = "list" ->
            ListV([i \in 1..Len(x.v) |->
                     IF x.v[i].t = "str" THEN StrV(Strip(x.v[i].v)) ELSE x.v[i]])
      [] OTHER -> x
clean_dict_key_spaces(d) ==
    [ck \in {RemoveWhitespace(k) : k \in DOMAIN d} |->
        UtilsCleanValue(d[CHOOSE k \in DOMAIN d : RemoveWhitespace(k) = ck])]

\* variant: the ASCII words only
TRUE_WORDS_ascii == {"true", "1", "yes"}

\* "true", "1", "yes", "是"
TRUE_WORDS == {"true", "1", "yes", "shi"}
\* "地点变化", "着装变化", "建议配图"
BOOL_FIELDS == {K_LOC_CHANGED, K_CLOTH_CHANGED, "jianyipeitu"}

\* variant: the keys are taken as the planner wrote them
normalize_planner_decision_keys_kept(decision) ==
    CanonicalUpdates(
        [k \in DOMAIN decision |->
            IF decision[k].t = "str" /\ k \in BOOL_FIELDS
            THEN BoolV(Strip(Lower(decision[k].v)) \in TRUE_WORDS)
            ELSE UtilsCleanValue(decision[k])])

\* utils.normalize_planner_decision
normalize_planner_decision(decision) ==
    CanonicalUpdates(
        [ck \in {RemoveWhitespace(k) : k \in DOMAIN decision} |->
            LET value == decision[CHOOSE k \in DOMAIN decision : RemoveWhitespace(k) = ck]
            IN IF value.t = "str" /\ ck \in BOOL_FIELDS
               THEN BoolV(Strip(Lower(value.v)) \in TRUE_WORDS)
               ELSE UtilsCleanValue(value)])

\* variant: a fallback that reports a change of location
get_default_decision_moved ==
    (K_LOC_CHANGED :> BoolV(TRUE)) @@ (K_NEW_LOC :> StrV("gongyuan"))
    @@ (K_CLOTH_CHANGED :> BoolV(FALSE)) @@ (K_NEW_CLOTH :> StrV(""))
    @@ (K_UPDATES :> DictV(EmptyDict))

\* utils.get_default_decision / SceneFormatHandler._get_default_decision
get_default_decision ==
    (K_LOC_CHANGED :> BoolV(FALSE)) @@ (K_NEW_LOC :> StrV(""))
    @@ (K_CLOTH_CHANGED :> BoolV(FALSE)) @@ (K_NEW_CLOTH :> StrV(""))
    @@ (K_UPDATES :> DictV(EmptyDict))

\* decision.setdefault(...) of the five required keys
WithRequiredKeys(decision) == decision @@ get_default_decision

\* What the planner call and the JSON parsing gave:
\*   "raise"  generate_response_async raised
\*   "none"   the text parses neither as JSON nor as structured text
\*   "list"   the text is JSON but not an object
\*   "dict"   the text is a JSON object, d
PlannerDict(d) == [k |-> "dict", d |-> d]

\* the planner produced no usable decision
PlannerFailed(planner) ==
    planner.k \in {"raise", "none", "list"} \/ (planner.k = "dict" /\ DOMAIN planner.d = {})

\* SceneFormatHandler._validate_state_decision: the same rules, in the same
\* order of precedence, as StateManager.validate_state_decision
Handler_validate_state_decision(decision, current_status) ==
    validate_state_decision(decision, current_status)

\* SceneFormatHandler._plan_state_changes
Handler_plan_state_changes(planner, character_status) ==
    IF PlannerFailed(planner)
    THEN get_default_decision
    ELSE Handler_validate_state_decision(
             WithRequiredKeys(Handler_normalize_planner_decision(planner.d)),
             character_status)

----------------------------------------------------------------------------
(* SceneFormatHandler: one message turn *)

\* the chat every modelled message and command is sent in
TheChat == CHOOSE c \in Chats : TRUE

\* SceneDB.get_state_by_user: the session ids of the rows of the chat whose
\* user_id column is the user (a row is keyed chat:user and holds that user)
RowsOfUser(sc, chat_id, user_id) ==
    {s \in Sessions : /\ sc[s] # NoRow
                      /\ s \in {build_session_id(chat_id, u) : u \in Users}
                      /\ sc[s].user_id = user_id}

\* SceneFormatHandler._resolve_active_state / SceneCommand._get_existing_state,
\* for a message that carries a user id: the session id the state is read from
resolve_active_state(sc, chat_id, user_id) ==
    LET session_id == build_session_id(chat_id, user_id)
    IN IF sc[session_id] # NoRow THEN session_id
       ELSE IF RowsOfUser(sc, chat_id, user_id) # {}
       THEN CHOOSE s \in RowsOfUser(sc, chat_id, user_id) : TRUE
       ELSE session_id

\* What the reply call and its parsing gave:
\*   "raise"    generate_response_async raised
\*   "none"     the text could not be parsed
\*   "missing"  a required field ("地点", "着装", "场景") is missing
\*   "ok"       a reply with the three fields
ReplyNone == [k |-> "none"]
ReplyOk(location, clothing, scene_text) ==
    [k |-> "ok", location |-> location, clothing |-> clothing, scene |-> scene_text]
ReplyFailed(reply) == reply.k # "ok"

\* final_location / final_clothing of _generate_scene_reply
FinalField(decision, changed_key, new_key, current) ==
    IF Truthy(decision[changed_key]) /\ Truthy(decision[new_key])
    THEN decision[new_key].v ELSE current

\* SceneFormatHandler._derive_last_activity: "移动到…", "地点变更",
\* "换装为…", "更换着装", else the user message
derive_last_activity(user_message, decision, location, clothing) ==
    IF K_LOC_CHANGED \in DOMAIN decision /\ Truthy(decision[K_LOC_CHANGED])
    THEN IF location # "" THEN "yidongdao_" \o location ELSE "didianbiangeng"
    ELSE IF K_CLOTH_CHANGED \in DOMAIN decision /\ Truthy(decision[K_CLOTH_CHANGED])
    THEN IF clothing # "" THEN "huanzhuangwei_" \o clothing ELSE "genghuanzhuozhuang"
    ELSE user_message

\* variant: a numeric delta replaces the stored value
ProcessedUpdatesReplacing(character_updates, current_status) == character_updates

\* the processed_updates of _update_scene_state: the five numeric fields are
\* added to the stored value, every other value replaces it
ProcessedUpdates(character_updates, current_status) ==
    [key \in DOMAIN character_updates |->
        IF IsNumber(character_updates[key]) /\ key \in NUMERIC_FIELDS
        THEN IntV(OrDefault(Get(current_status, key, 0), 0) + NumOf(character_updates[key]))
        ELSE character_updates[key]]

\* step 2 of _update_scene_state: the additive merge into character_status
MergeStatus(st, session_id, state_decision) ==
    LET character_updates == UpdatesOf(state_decision)
    IN IF DOMAIN character_updates = {} THEN st
       ELSE update_character_status(st, session_id,
                ProcessedUpdates(character_updates, StatusOrEmpty(st, session_id)))

MaxHistory == 3
MaxNow == 62
UserMessages == {"nihao"}
Locations == {"woshi"}

\* SceneFormatHandler.execute, for a message the handler intercepts.
\* write_failure: the store write of the turn that raises ("none", or
\* "scene": update_scene_state, "status": update_character_status,
\* "history": add_scene_history). _update_scene_state catches what its two
\* writes raise and execute goes on to the history; what add_scene_history
\* raises ends execute
MessageTurn(user_id, user_message, planner, reply, write_failure) ==
    \E session_id \in {resolve_active_state(scene, TheChat, user_id)} :
    \E current_state \in {scene[session_id]} :
      /\ current_state # NoRow
      /\ current_state.enabled = 1
      /\ Len(history[session_id]) < MaxHistory
      /\ \E st1 \in {init_character_status(status, session_id)} :
         \E character_status \in {StatusOrEmpty(st1, session_id)} :
         \E state_decision \in {Handler_plan_state_changes(planner, character_status)} :
         \E updated_character_status \in
                {apply_state_updates_preview(character_status, state_decision)} :
           /\ IF ReplyFailed(reply)
              THEN /\ status' = st1
                   /\ UNCHANGED <<scene, history>>
              ELSE \E location \in {FinalField(state_decision, K_LOC_CHANGED, K_NEW_LOC,
                                               current_state.location)} :
                   \E clothing \in {FinalField(state_decision, K_CLOTH_CHANGED, K_NEW_CLOTH,
                                               current_state.clothing)} :
                     /\ scene' = IF write_failure = "scene" THEN scene
                                 ELSE update_scene_state(scene, session_id, location, clothing,
                                          reply.scene,
                                          derive_last_activity(user_message, state_decision,
                                                               location, clothing),
                                          now)
                     /\ status' = IF write_failure \in {"scene", "status"} THEN st1
                                  ELSE MergeStatus(st1, session_id, state_decision)
                     /\ history' = IF write_failure = "history" THEN history
                                   ELSE add_scene_history(history, session_id, location,
                                            clothing, reply.scene, user_message, reply.scene)
           /\ last' = [op |-> "turn", sid |-> session_id, user |-> user_id,
                       planner |-> planner,
                       cur |-> character_status, validated |-> state_decision,
                       decision |-> state_decision, preview |-> updated_character_status,
                       reply_ok |-> ~ReplyFailed(reply), scene_type |-> "",
                       had_row |-> status[session_id] # NoRow]
           /\ UNCHANGED <<now, admin_mode_enabled, inflight, llm, sched>>

\* time passes
Tick ==
    /\ \E d \in {31} : now + d <= MaxNow /\ now' = now + d
    /\ UNCHANGED <<scene, status, history, last, admin_mode_enabled, inflight, llm, sched>>

Init ==
    /\ scene = [s \in Sessions |-> NoRow]
    /\ status = [s \in Sessions |-> NoRow]
    /\ history = [s \in Sessions |-> <<>>]
    /\ now = 0
    /\ last = [op |-> "none"]
    /\ admin_mode_enabled = [k \in {} |-> TRUE]
    /\ inflight = [i \in {1, 2} |-> [busy |-> FALSE]]
    /\ llm = [phase |-> "idle"]
    /\ sched = [date |-> 1, past |-> FALSE, started |-> FALSE, loops |-> 0, target |-> 0,
                last_execution_date |-> 0, last_generated |-> 0, generated |-> <<>>]

----------------------------------------------------------------------------
(* commands/admin_command.py, commands/nai_command.py *)

\* the configured admin.admin_users
ADMIN_USERS == {"u1"}

\* SceneAdminCommand.check_user_permission, with is_admin_mode_enabled:
\* the run-time entry of the chat, else admin.default_admin_mode (False)
check_user_permission(mode, chat_key, user_id) ==
    LET enabled == IF chat_key \in DOMAIN mode THEN mode[chat_key] ELSE FALSE
    IN IF ~enabled THEN TRUE ELSE user_id \in ADMIN_USERS

\* the early return of a command whose permission check fails
\* ("当前会话已开启管理员模式，仅管理员可使用")
Rejected(user_id) ==
    /\ last' = [op |-> "rejected", user |-> user_id]
    /\ UNCHANGED <<scene, status, history, now, admin_mode_enabled, inflight, llm, sched>>

\* /sc admin on, /sc admin off: SceneAdminCommand.execute
AdminCommand(user_id, action) ==
    /\ admin_mode_enabled' =
          \* _check_admin_permission
          IF ~(ADMIN_USERS = {} \/ user_id \in ADMIN_USERS) THEN admin_mode_enabled
          ELSE [k \in DOMAIN admin_mode_enabled \cup {TheChat} |->
                  IF k = TheChat THEN action = "on" ELSE admin_mode_enabled[k]]
    /\ last' = [op |-> "admin", user |-> user_id]
    /\ UNCHANGED <<scene, status, history, now, inflight, llm, sched>>

\* /sc nai on, /sc nai off, /sc nai: NaiControlCommand.execute;
\* api_key: nai.api_key is configured
NaiCommand(user_id, subcommand, api_key) ==
    LET session_id == build_session_id(TheChat, user_id)
    IN /\ scene' = IF subcommand = "on"
                   THEN IF api_key THEN set_nai_enabled(scene, session_id, TRUE) ELSE scene
                   ELSE IF subcommand = "off"
                   THEN set_nai_enabled(scene, session_id, FALSE)
                   ELSE scene
       /\ last' = [op |-> "nai", sid |-> session_id, user |-> user_id]
       /\ UNCHANGED <<status, history, now, admin_mode_enabled, inflight, llm, sched>>

----------------------------------------------------------------------------
(* commands/scene_command.py, commands/custom_init_command.py *)

\* What the scene-generating LLM call of a command gave:
\*   "raise"  the call raised, or a required key is missing in the answer
\*   "none"   the text could not be parsed
\*   "ok"     a scene: location, clothing, scene text
GenOutcomes ==
    {[k |-> "raise"], [k |-> "none"]} \cup
    {[k |-> "ok", location |-> l, clothing |-> c, scene |-> t] :
        l \in Locations, c \in {"shuiyi"}, t \in {"changjing"}}

\* the activity name of the schedule entry found by get_current_activity
ScheduleActivity == "richeng_huodong"
\* "[场景初始化]", "[场景过渡 - 时间流逝 … 小时]", "自定义场景"
\* the reply texts stored with the history rows the commands add

\* SceneCommand._do_initialize_scene, run on the tables sc, st, h
do_initialize_scene(sc, st, h, session_id, user_id, enable, has_activity, gen) ==
    IF ~has_activity \/ gen.k # "ok"
    THEN /\ scene' = sc
         /\ status' = st
         /\ history' = h
    ELSE LET sc1 == create_scene_state(sc, session_id, gen.location, gen.clothing,
                                       gen.scene, ScheduleActivity, user_id, now)
         IN /\ scene' = IF enable THEN sc1 ELSE disable_scene(sc1, session_id)
            /\ status' = init_character_status(st, session_id)
            /\ history' = add_scene_history(h, session_id, gen.location, gen.clothing,
                              \* "[场景初始化]" and the reply text
                              gen.scene, "changjing_chushihua", "changjing_moshi_yi_qiyong")

\* SceneCommand._resume_scene
resume_scene(session_id, user_id, last_state, has_activity, gen) ==
    LET last_time == IF last_state.last_update_time = NoTime THEN now
                     ELSE last_state.last_update_time
    IN IF ~has_activity
       THEN UNCHANGED <<scene, status, history>>
       ELSE IF now - last_time < 30
       THEN /\ scene' = enable_scene(scene, session_id)
            /\ status' = init_character_status(status, session_id)
            /\ UNCHANGED history
       ELSE IF gen.k = "raise"
       THEN UNCHANGED <<scene, status, history>>
       ELSE IF gen.k = "none"
       THEN /\ scene' = enable_scene(scene, session_id)
            /\ UNCHANGED <<status, history>>
       ELSE /\ scene' = enable_scene(
                            update_scene_state(scene, session_id, gen.location, gen.clothing,
                                               gen.scene, ScheduleActivity, now),
                            session_id)
            /\ status' = init_character_status(status, session_id)
            /\ history' = add_scene_history(history, session_id, gen.location, gen.clothing,
                              \* "[场景过渡 ...]" and the reply text
                              gen.scene, "changjing_guodu", "changjing_moshi_yi_qiyong_xujie")

\* /sc on: SceneCommand._handle_scene_on
SceneOn(user_id, has_activity, gen) ==
    IF ~check_user_permission(admin_mode_enabled, TheChat, user_id) THEN Rejected(user_id)
    ELSE
    LET session_id == build_session_id(TheChat, user_id)
        resolved_id == resolve_active_state(scene, TheChat, user_id)
        state == scene[resolved_id]
    IN /\ ~(state # NoRow /\ state.enabled = 1)
       /\ Len(history[session_id]) < MaxHistory
       /\ Len(history[resolved_id]) < MaxHistory
       /\ IF state # NoRow /\ state.location # NULL /\ state.location # ""
          THEN resume_scene(resolved_id, user_id, state, has_activity, gen)
          ELSE do_initialize_scene(scene, status, history, session_id, user_id, TRUE,
                                   has_activity, gen)
       /\ last' = [op |-> "scene_on", sid |-> session_id, user |-> user_id]
       /\ UNCHANGED <<now, admin_mode_enabled, inflight, llm, sched>>

\* /sc off: SceneCommand._handle_scene_off
SceneOff(user_id) ==
    IF ~check_user_permission(admin_mode_enabled, TheChat, user_id) THEN Rejected(user_id)
    ELSE
    LET resolved_id == resolve_active_state(scene, TheChat, user_id)
        state == scene[resolved_id]
    IN /\ scene' = IF state = NoRow \/ state.enabled # 1
                   THEN scene  \* "场景模式未启用"
                   ELSE disable_scene(scene, resolved_id)
       /\ last' = [op |-> "scene_off", sid |-> resolved_id, user |-> user_id]
       /\ UNCHANGED <<status, history, now, admin_mode_enabled, inflight, llm, sched>>

\* SceneCommand._reset_session_storage: the scene_states table afterwards
reset_session_storage(sc, resolved_id, session_id) ==
    LET target_ids == {resolved_id, session_id}
        preserve_nai == \E cid \in target_ids : get_nai_enabled(sc, cid)
        cleared == [s \in Sessions |-> IF s \in target_ids THEN NoRow ELSE sc[s]]
    IN IF preserve_nai THEN set_nai_enabled(cleared, session_id, TRUE) ELSE cleared

\* /sc init: SceneCommand._handle_scene_init
SceneInit(user_id, has_activity, gen) ==
    IF ~check_user_permission(admin_mode_enabled, TheChat, user_id) THEN Rejected(user_id)
    ELSE
    LET session_id == build_session_id(TheChat, user_id)
        resolved_id == resolve_active_state(scene, TheChat, user_id)
        target_ids == {resolved_id, session_id}
    IN /\ do_initialize_scene(
              reset_session_storage(scene, resolved_id, session_id),
              [s \in Sessions |-> IF s \in target_ids THEN NoRow ELSE status[s]],
              [s \in Sessions |-> IF s \in target_ids THEN <<>> ELSE history[s]],
              session_id, user_id, FALSE, has_activity, gen)
       /\ last' = [op |-> "scene_init", sid |-> session_id, user |-> user_id,
                   generated |-> has_activity /\ gen.k = "ok"]
       /\ UNCHANGED <<now, admin_mode_enabled, inflight, llm, sched>>

\* /sc init <description>: CustomInitCommand.execute
CustomInit(user_id, gen) ==
    IF ~check_user_permission(admin_mode_enabled, TheChat, user_id) THEN Rejected(user_id)
    ELSE
    LET session_id == build_session_id(TheChat, user_id)
        nai_enabled == get_nai_enabled(scene, session_id)
        sc1 == clear_scene_state(scene, session_id)
        sc2 == IF nai_enabled THEN set_nai_enabled(sc1, session_id, TRUE) ELSE sc1
        sc3 == create_scene_state(sc2, session_id, gen.location, gen.clothing, gen.scene,
                                  \* "自定义场景"
                                  "zidingyi_changjing", user_id, now)
    IN /\ IF gen.k # "ok"
          THEN UNCHANGED <<scene, status, history>>
          ELSE /\ scene' = disable_scene(sc3, session_id)
               /\ history' = clear_scene_history(history, session_id)
               /\ status' = clear_character_status(status, session_id)
       /\ last' = [op |-> "custom_init", sid |-> session_id, user |-> user_id,
                   generated |-> gen.k = "ok"]
       /\ UNCHANGED <<now, admin_mode_enabled, inflight, llm, sched>>

----------------------------------------------------------------------------
(* commands/status_command.py *)

\* StatusCommand._resolve_session_id, for a message that carries a user id.
\* No row is keyed by the bare stream id (the legacy key), so the lookup
\* after get_state_by_user is get_latest_session_state: the rows of the
\* stream, of which the most recently updated one is taken
StatusSessionIds(sc, stream_id, user_id) ==
    LET session_id == build_session_id(stream_id, user_id)
        of_stream == {s \in Sessions : /\ sc[s] # NoRow
                                        /\ s \in {build_session_id(stream_id, u) : u \in Users}}
    IN IF sc[session_id] # NoRow THEN {session_id}
       ELSE IF RowsOfUser(sc, stream_id, user_id) # {} THEN RowsOfUser(sc, stream_id, user_id)
       ELSE IF of_stream # {} THEN of_stream
       ELSE {session_id}

\* /sc status, /sc status history, /sc status reset: StatusCommand.execute
StatusCommand(user_id, subcommand) ==
    IF ~check_user_permission(admin_mode_enabled, TheChat, user_id) THEN Rejected(user_id)
    ELSE
    \E session_id \in StatusSessionIds(scene, TheChat, user_id) :
      /\ status' =
            IF subcommand = "history" THEN status
            ELSE IF subcommand = "reset"
            THEN IF status[session_id] = NoRow THEN status
                 ELSE init_character_status(clear_character_status(status, session_id),
                                            session_id)
            ELSE IF status[session_id] = NoRow /\ scene[session_id] # NoRow
            THEN init_character_status(status, session_id)
            ELSE status
      /\ last' = [op |-> "status", sid |-> session_id, user |-> user_id]
      /\ UNCHANGED <<scene, history, now, admin_mode_enabled, inflight, llm, sched>>

----------------------------------------------------------------------------
(* The program: commands and message turns of one user, status commands of *)
(* every user of the chat; nobody sends /sc admin, and no store write fails *)

ActiveUsers == {"u1"}

\* planner answers of the message turns
PlannerOutcomes ==
    {[k |-> "raise"], [k |-> "none"], [k |-> "list"], PlannerDict(EmptyDict),
     PlannerDict((K_UPDATES :> DictV(("pleasure_value" :> IntV(60))))),
     PlannerDict(("di dian bian hua" :> StrV("true")) @@ (K_NEW_LOC :> StrV("gong yuan"))
                 @@ (K_UPDATES :> DictV(("pleasure_value" :> IntV(-50))))),
     PlannerDict((K_UPDATES :> DictV(("totally_unknown_field" :> IntV(999))))),
     PlannerDict((K_UPDATES :> DictV(("pleasure_threshold" :> IntV(50))
                                     @@ ("chat_id" :> StrV("c1:u2"))
                                     @@ ("inventory" :> ListV(<<StrV("yaoshi")>>))))),
     PlannerDict((K_UPDATES :> DictV(("inventory" :> StrV("yaoshi"))))),
     PlannerDict((K_UPDATES :> DictV(("pregnancy_counter" :> IntV(-3)))))}

ReplyOutcomes ==
    {[k |-> "raise"], ReplyNone, [k |-> "missing"]} \cup
    {ReplyOk(l, c, t) : l \in Locations, c \in {"shuiyi"}, t \in {"changjing"}}

Next ==
    \/ Tick
    \/ \E u \in ActiveUsers, m \in UserMessages, p \in PlannerOutcomes, r \in ReplyOutcomes :
          MessageTurn(u, m, p, r, "none")
    \/ \E u \in ActiveUsers, a \in BOOLEAN, g \in GenOutcomes : SceneOn(u, a, g)
    \/ \E u \in ActiveUsers : SceneOff(u)
    \/ \E u \in ActiveUsers, a \in BOOLEAN, g \in GenOutcomes : SceneInit(u, a, g)
    \/ \E u \in ActiveUsers, g \in GenOutcomes : CustomInit(u, g)
    \/ \E u \in Users, c \in {"", "history", "reset"} : StatusCommand(u, c)

Spec == Init /\ [][Next]_vars

----------------------------------------------------------------------------
(* The turn of the state-managed pipeline: time decay, planner, validation, *)
(* scene-type decay, consistency pass, preview, reply, persisted merge.     *)
(* The source holds the steps (StateManager, SceneGenerator) but no caller  *)
(* of them: their order is the one the design document gives.               *)

\* variant: the decay applies from the threshold on
TimeDecayAppliesFromThreshold(current_state, character_status) ==
    /\ current_state.last_update_time \notin {NoTime, -2}
    /\ now - current_state.last_update_time >= TIME_DECAY_THRESHOLD
    /\ OrDefault(Get(character_status, "pleasure_value", 0), 0) > 0

\* the value StateManager.apply_time_decay returns; parse_datetime gives None
\* for a NULL last_update_time (NoTime) and for a text in none of its
\* formats (-2)
TimeDecayApplies(current_state, character_status) ==
    /\ current_state.last_update_time \notin {NoTime, -2}
    /\ now - current_state.last_update_time > TIME_DECAY_THRESHOLD
    /\ OrDefault(Get(character_status, "pleasure_value", 0), 0) > 0

\* StateManager.apply_time_decay: the character_status table afterwards
apply_time_decay(st, session_id, current_state, character_status) ==
    LET current_pleasure == OrDefault(Get(character_status, "pleasure_value", 0), 0)
        decay_amount == Min(current_pleasure, TIME_DECAY_AMOUNT)
        new_pleasure == Max(0, current_pleasure - decay_amount)
    IN IF TimeDecayApplies(current_state, character_status)
       THEN update_character_status(st, session_id, ("pleasure_value" :> IntV(new_pleasure)))
       ELSE st

\* SceneGenerator._normalize_scene_field, for a text of Chinese characters:
\* str(), strip, the whitespace between the characters removed
normalize_scene_field(x) == IF ~Truthy(x) THEN "" ELSE RemoveWhitespace(PyStr(x))

\* SceneGenerator.plan_state_changes
plan_state_changes(planner) ==
    IF PlannerFailed(planner)
    THEN get_default_decision
    ELSE LET decision == WithRequiredKeys(normalize_planner_decision(planner.d))
         IN (K_NEW_LOC :> StrV(normalize_scene_field(decision[K_NEW_LOC])))
            @@ (K_NEW_CLOTH :> StrV(normalize_scene_field(decision[K_NEW_CLOTH])))
            @@ decision

\* SceneGenerator.generate_scene_reply: the location or clothing of the reply
\* wins over the decision when it is non-empty and differs from it
ReplyField(decision, changed_key, new_key, current, reply_value) ==
    LET final == RemoveWhitespace(FinalField(decision, changed_key, new_key, current))
    IN IF reply_value # "" /\ reply_value # final THEN reply_value ELSE final

\* the state_decision as generate_scene_reply leaves it
DecisionAfterReply(decision, current_state, reply) ==
    LET loc == RemoveWhitespace(FinalField(decision, K_LOC_CHANGED, K_NEW_LOC, current_state.location))
        clo == RemoveWhitespace(FinalField(decision, K_CLOTH_CHANGED, K_NEW_CLOTH, current_state.clothing))
        d1 == IF reply.location # "" /\ reply.location # loc
              THEN (K_LOC_CHANGED :> BoolV(TRUE)) @@ (K_NEW_LOC :> StrV(reply.location)) @@ decision
              ELSE decision
    IN IF reply.clothing # "" /\ reply.clothing # clo
       THEN (K_CLOTH_CHANGED :> BoolV(TRUE)) @@ (K_NEW_CLOTH :> StrV(reply.clothing)) @@ d1
       ELSE d1

\* planner answers of the pipeline turns
\* plan_state_changes reads no state: its result on each planner answer
PlannedDecision ==
    [p \in
    {PlannerDict((K_UPDATES :> DictV(EmptyDict))),
        PlannerDict((K_UPDATES :> DictV(("pleasure_value" :> IntV(70))))),
        PlannerDict((K_UPDATES :> DictV(("pleasure_value" :> IntV(30))))),
        PlannerDict((K_UPDATES :> DictV(("pleasure_value" :> IntV(-50))))),
        PlannerDict((K_UPDATES :> DictV(("vaginal_wetness" :> StrV("chaoshi"))
                                        @@ ("vaginal_state" :> StrV("jinbeng"))
                                        @@ ("pregnancy_status" :> StrV("huaiyun")))))}
     |-> plan_state_changes(p)]

MaxPipelineHistory == 2

PipelineTurn(user_id, user_message, scene_type, planner, reply, max_history) ==
    \E session_id \in {resolve_active_state(scene, TheChat, user_id)} :
    \E current_state \in {scene[session_id]} :
      /\ current_state # NoRow
      /\ current_state.enabled = 1
      /\ Len(history[session_id]) < max_history
      /\ \E st1 \in {init_character_status(status, session_id)} :
         \* time decay is written to the store at once; the status is read again
         \E st2 \in {apply_time_decay(st1, session_id, current_state,
                                      StatusOrEmpty(st1, session_id))} :
         \E character_status \in {StatusOrEmpty(st2, session_id)} :
         \E planned \in {PlannedDecision[planner]} :
         \E validated \in {validate_state_decision(planned, character_status)} :
         \E decayed \in {apply_scene_decay(validated, scene_type, character_status)} :
         \E state_decision \in {ensure_status_consistency(decayed, character_status, scene_type)} :
         \E preview \in {apply_state_updates_preview(character_status, state_decision)} :
           /\ IF ReplyFailed(reply)
              THEN /\ status' = st2
                   /\ UNCHANGED <<scene, history>>
              ELSE \E final_decision \in {DecisionAfterReply(state_decision, current_state, reply)} :
                   \E location \in {ReplyField(state_decision, K_LOC_CHANGED, K_NEW_LOC,
                                               current_state.location, reply.location)} :
                   \E clothing \in {ReplyField(state_decision, K_CLOTH_CHANGED, K_NEW_CLOTH,
                                               current_state.clothing, reply.clothing)} :
                     /\ scene' = update_scene_state(scene, session_id, location, clothing,
                                     reply.scene,
                                     derive_last_activity(user_message, final_decision,
                                                          location, clothing),
                                     now)
                     /\ status' = MergeStatus(st2, session_id, final_decision)
                     /\ history' = add_scene_history(history, session_id, location, clothing,
                                       reply.scene, user_message, reply.scene)
           /\ last' = [op |-> "turn", sid |-> session_id, planner |-> planner,
                       cur |-> character_status, validated |-> validated,
                       decision |-> state_decision, preview |-> preview,
                       reply_ok |-> ~ReplyFailed(reply), scene_type |-> scene_type,
                       had_row |-> status[session_id] # NoRow,
                       time_decayed |-> TimeDecayApplies(current_state,
                                                         StatusOrEmpty(st1, session_id)),
                       at |-> now]
           /\ UNCHANGED <<now, admin_mode_enabled, inflight, llm, sched>>

\* the session of the pipeline runs: a scene just enabled by /sc on
PipelineSession == build_session_id(TheChat, "u1")

InitPipeline ==
    /\ scene = [s \in Sessions |->
                  IF s = PipelineSession
                  THEN SceneRow("woshi", "shuiyi", "changjing", ScheduleActivity, "u1", 0, 0)
                  ELSE NoRow]
    /\ status = [s \in Sessions |-> IF s = PipelineSession THEN DefaultStatus ELSE NoRow]
    /\ history = [s \in Sessions |-> <<>>]
    /\ now = 0
    /\ last = [op |-> "none"]
    /\ admin_mode_enabled = [k \in {} |-> TRUE]
    /\ inflight = [i \in {1, 2} |-> [busy |-> FALSE]]
    /\ llm = [phase |-> "idle"]
    /\ sched = [date |-> 1, past |-> FALSE, started |-> FALSE, loops |-> 0, target |-> 0,
                last_execution_date |-> 0, last_generated |-> 0, generated |-> <<>>]

NextPipeline ==
    \/ Tick
    \/ \E m \in UserMessages, t \in SceneTypes, p \in DOMAIN PlannedDecision,
          r \in {ReplyNone, ReplyOk("woshi", "shuiyi", "changjing")} :
          PipelineTurn("u1", m, t, p, r, MaxPipelineHistory)

SpecPipeline == InitPipeline /\ [][NextPipeline]_vars

\* Longer runs of the pipeline on fewer inputs: three persisted turns, idle
\* gaps between them, replies that fail
MaxTurnsHistory == 3

NextTurns ==
    \/ Tick
    \/ \E t \in {SCENE_TYPE_NORMAL, SCENE_TYPE_EXPLICIT},
          p \in {PlannerDict((K_UPDATES :> DictV(EmptyDict))),
                 PlannerDict((K_UPDATES :> DictV(("pleasure_value" :> IntV(70))))),
                 PlannerDict((K_UPDATES :> DictV(("pleasure_value" :> IntV(30))))),
                 PlannerDict((K_UPDATES :> DictV(("pleasure_value" :> IntV(-50)))))},
          r \in {ReplyNone, ReplyOk("woshi", "shuiyi", "changjing")} :
          PipelineTurn("u1", "nihao", t, p, r, MaxTurnsHistory)

SpecTurns == InitPipeline /\ [][NextTurns]_vars

----------------------------------------------------------------------------
(* The functions of StateManager and SceneDB called on their own: the       *)
(* current status is drawn from in-bound values, the calls apply them       *)

InitValidate ==
    /\ scene = [s \in Sessions |->
                  IF s = PipelineSession
                  THEN SceneRow("woshi", "shuiyi", "changjing", ScheduleActivity, "u1", 0, 0)
                  ELSE NoRow]
    /\ \E cur \in
          {[DefaultStatus EXCEPT !.pleasure_value = p,
                                 !.corruption_level = n[1],
                                 !.semen_volume = n[2],
                                 !.anal_development = n[3],
                                 !.vaginal_capacity = n[4],
                                 !.vaginal_wetness = w] :
              p \in {0, 10, 55, 95},
              \* corruption_level, semen_volume, anal_development, vaginal_capacity
              n \in {<<0, 0, 0, 50>>, <<90, 200, 40, 100>>, <<100, 500, 100, 300>>},
              w \in {"zhengchang", "shirun"}}
          \* after a climax
          \cup {[DefaultStatus EXCEPT !.pleasure_value = 55,
                                       !.corruption_level = 100,
                                       !.physiological_state = CLIMAX_TEXT]} :
          status = [s \in Sessions |-> IF s = PipelineSession THEN cur ELSE NoRow]
    /\ history = [s \in Sessions |-> <<>>]
    \* 31 minutes after the scene was created
    /\ now = 31
    /\ last = [op |-> "none"]
    /\ admin_mode_enabled = [k \in {} |-> TRUE]
    /\ inflight = [i \in {1, 2} |-> [busy |-> FALSE]]
    /\ llm = [phase |-> "idle"]
    /\ sched = [date |-> 1, past |-> FALSE, started |-> FALSE, loops |-> 0, target |-> 0,
                last_execution_date |-> 0, last_generated |-> 0, generated |-> <<>>]

\* a call of StateManager.validate_state_decision on the stored status
ValidateCall(status_updates) ==
    /\ last' = [op |-> "validate",
                cur |-> status[PipelineSession],
                input |-> status_updates,
                result |-> UpdatesOf(validate_state_decision(
                               WithUpdates(get_default_decision, status_updates),
                               status[PipelineSession]))]
    /\ UNCHANGED <<scene, status, history, now, admin_mode_enabled, inflight, llm, sched>>

\* a call of StateManager.ensure_status_consistency on the stored status
ConsistencyCall(status_updates, scene_type) ==
    /\ last' = [op |-> "consistency",
                cur |-> status[PipelineSession],
                input |-> status_updates,
                scene_type |-> scene_type,
                result |-> UpdatesOf(ensure_status_consistency(
                               WithUpdates(get_default_decision, status_updates),
                               status[PipelineSession], scene_type))]
    /\ UNCHANGED <<scene, status, history, now, admin_mode_enabled, inflight, llm, sched>>

\* a call of StateManager.apply_scene_decay with a decision that carries a
\* pleasure delta
SceneDecayCall(status_updates, scene_type) ==
    /\ last' = [op |-> "scene_decay",
                input |-> status_updates,
                scene_type |-> scene_type,
                result |-> UpdatesOf(apply_scene_decay(
                               WithUpdates(get_default_decision, status_updates),
                               scene_type, status[PipelineSession]))]
    /\ UNCHANGED <<scene, status, history, now, admin_mode_enabled, inflight, llm, sched>>

\* a call of StateManager.apply_time_decay on the stored status, for a scene
\* row whose last_update_time is the given one
TimeDecayCall(last_update_time) ==
    \E current_state \in {[scene[PipelineSession] EXCEPT !.last_update_time = last_update_time]} :
      /\ status' = apply_time_decay(status, PipelineSession, current_state,
                                     status[PipelineSession])
      /\ last' = [op |-> "time_decay",
                  cur |-> status[PipelineSession],
                  input |-> last_update_time,
                  at |-> now,
                  result |-> TimeDecayApplies(current_state, status[PipelineSession])]
      /\ UNCHANGED <<scene, history, now, admin_mode_enabled, inflight, llm, sched>>

\* plan_state_changes reads no state: its result on each planner answer of
\* the calls
PlanCallResult ==
    [p \in PlannerOutcomes \cup
            {PlannerDict((" zhuozhuang bianhua" :> StrV(" YES "))
                         @@ ("xin zhuozhuang" :> StrV(" qun zi "))
                         @@ ("juese zhuangtai" :> DictV(("pleasure _value" :> IntV(5))))),
             PlannerDict(("di dian bian hua" :> StrV("false"))
                         @@ (K_UPDATES :> ListV(<<IntV(1)>>))),
             PlannerDict(("xindidian" :> StrV("gongyuan"))),
             \* the three boolean keys as strings
             PlannerDict((K_LOC_CHANGED :> StrV(" TRUE ")) @@ (K_CLOTH_CHANGED :> StrV("no"))
                         @@ ("jianyipeitu" :> StrV("shi"))),
             \* ... as a number, a boolean and the string "1"
             PlannerDict((K_LOC_CHANGED :> IntV(1)) @@ (K_CLOTH_CHANGED :> BoolV(TRUE))
                         @@ ("jianyipeitu" :> StrV("1"))),
             \* ... as a list
             PlannerDict((K_LOC_CHANGED :> ListV(<<StrV(" true ")>>))),
             \* a list under the canonical key, a map under the first alias
             PlannerDict((K_UPDATES :> ListV(<<IntV(1)>>))
                         @@ ("juesezhuangtai" :> DictV(("pleasure_value" :> IntV(5))))),
             \* a string under the first alias, a map under the second
             PlannerDict(("juesezhuangtai" :> StrV("wu"))
                         @@ ("zhuangtaigengxin" :> DictV(("corruption_level" :> IntV(2))))),
             \* a map under the second alias only
             PlannerDict(("zhuangtaigengxin" :> DictV(("corruption_level" :> IntV(2)))))}
     |-> plan_state_changes(p)]

\* a call of SceneGenerator.plan_state_changes with the planner's answer
PlanCall(planner) ==
    /\ last' = [op |-> "plan", input |-> planner, result |-> PlanCallResult[planner]]
    /\ UNCHANGED <<scene, status, history, now, admin_mode_enabled, inflight, llm, sched>>

\* a call of SceneDB.init_character_status
InitStatusCall(session_id) ==
    /\ status' = init_character_status(status, session_id)
    /\ last' = [op |-> "init_status", sid |-> session_id, before |-> status[session_id]]
    /\ UNCHANGED <<scene, history, now, admin_mode_enabled, inflight, llm, sched>>

\* the status part of a turn of the handler: the update map is validated
\* against the stored status and merged into it (_update_scene_state, step 2)
ValidatedMergeCall(status_updates) ==
    \E validated \in {Handler_validate_state_decision(
                          WithUpdates(get_default_decision, status_updates),
                          status[PipelineSession])} :
      /\ status' = MergeStatus(status, PipelineSession, validated)
      /\ last' = [op |-> "merge",
                  cur |-> status[PipelineSession],
                  input |-> status_updates,
                  result |-> UpdatesOf(validated)]
      /\ UNCHANGED <<scene, history, now, admin_mode_enabled, inflight, llm, sched>>

NextValidate ==
    \/ \E su \in
          {(f :> IntV(d)) : f \in NUMERIC_FIELDS, d \in {-150, -50, 10, 70, 600}}
          \cup {("semen_volume" :> IntV(-600)),
                ("pleasure_value" :> IntV(10)) @@ ("physiological_state" :> StrV("xintiaojiasu")),
                ("physiological_state" :> StrV("xintiaojiasu")),
                ("totally_unknown_field" :> IntV(999)),
                ("pleasure_threshold" :> IntV(50)) @@ ("chat_id" :> StrV("c1:u2")),
                ("vaginal_wetness" :> StrV("yinshi")),
                ("vaginal_wetness" :> StrV("chaoshi")),
                ("vaginal_state" :> StrV("jinbeng")) @@ ("pregnancy_status" :> StrV("huaiyun")),
                ("inventory" :> ListV(<<StrV("yaoshi")>>)),
                ("inventory" :> StrV("yaoshi"))} :
          ValidateCall(su)
    \/ \E su \in
          {EmptyDict,
           ("pleasure_value" :> IntV(20)),
           ("pleasure_value" :> IntV(-20)),
           ("pleasure_value" :> IntV(-10)),
           ("pleasure_value" :> IntV(-20)) @@ ("vaginal_wetness" :> StrV("aiyehengliu")),
           ("vaginal_wetness" :> StrV("weishi")),
           ("physiological_state" :> StrV("xintiaojiasu"))},
          t \in SceneTypes :
          ConsistencyCall(su, t)
    \/ \E d \in {-50, 5, 30, 70}, t \in SceneTypes :
          SceneDecayCall(("pleasure_value" :> IntV(d)), t)
    \/ \E p \in DOMAIN PlanCallResult : PlanCall(p)
    \/ \E s \in Sessions : InitStatusCall(s)
    \/ \E su \in {("corruption_level" :> IntV(d)) : d \in {-5, 10, 30}} :
          ValidatedMergeCall(su)
    \* NULL, unparseable, and three parseable times
    \/ \E t \in {NoTime, -2, 0, 1, 31} : TimeDecayCall(t)

SpecValidate == InitValidate /\ [][NextValidate]_vars

----------------------------------------------------------------------------
(* The scene and history functions of SceneDB called on their own, from the *)
(* empty tables                                                             *)

MaxStoreHistory == 2

\* SceneDB.set_nai_enabled, as /nai on and /nai off call it
SetNaiCall(session_id, enabled) ==
    /\ scene' = set_nai_enabled(scene, session_id, enabled)
    /\ last' = [op |-> "set_nai", sid |-> session_id]
    /\ UNCHANGED <<status, history, now, admin_mode_enabled, inflight, llm, sched>>

\* SceneDB.clear_scene_state
ClearSceneCall(session_id) ==
    /\ scene' = clear_scene_state(scene, session_id)
    /\ last' = [op |-> "clear_scene", sid |-> session_id,
                nai_before |-> get_nai_enabled(scene, session_id)]
    /\ UNCHANGED <<status, history, now, admin_mode_enabled, inflight, llm, sched>>

\* SceneDB.add_scene_history
AddHistoryCall(session_id, user_message) ==
    /\ Len(history[session_id]) < MaxStoreHistory
    /\ history' = add_scene_history(history, session_id, "woshi", "shuiyi", "changjing",
                                     user_message, "changjing")
    /\ last' = [op |-> "add_history", sid |-> session_id]
    /\ UNCHANGED <<scene, status, now, admin_mode_enabled, inflight, llm, sched>>

\* SceneDB.get_recent_history
GetHistoryCall(session_id, limit) ==
    /\ last' = [op |-> "get_history", sid |-> session_id, limit |-> limit,
                result |-> get_recent_history(history, session_id, limit)]
    /\ UNCHANGED <<scene, status, history, now, admin_mode_enabled, inflight, llm, sched>>

NextStore ==
    \/ \E s \in Sessions, b \in BOOLEAN : SetNaiCall(s, b)
    \/ \E s \in Sessions : ClearSceneCall(s)
    \* the messages of a session name the session
    \/ \E s \in Sessions, m \in {"yi", "er"} : AddHistoryCall(s, m \o "@" \o s)
    \/ \E s \in Sessions, n \in {0, 1, 2, 200} : GetHistoryCall(s, n)

SpecStore == Init /\ [][NextStore]_vars

----------------------------------------------------------------------------
(* The commands of the two users of a chat, one of them an administrator,  *)
(* with /sc admin                                                           *)

NextAdmin ==
    \/ \E u \in Users, a \in {"on", "off"} : AdminCommand(u, a)
    \/ \E u \in Users, c \in {"on", "off", ""}, k \in BOOLEAN : NaiCommand(u, c, k)
    \/ \E u \in Users, a \in BOOLEAN, g \in GenOutcomes : SceneOn(u, a, g)
    \/ \E u \in Users : SceneOff(u)
    \/ \E u \in Users, a \in BOOLEAN, g \in GenOutcomes : SceneInit(u, a, g)
    \/ \E u \in Users, g \in GenOutcomes : CustomInit(u, g)
    \/ \E u \in Users, c \in {"", "history", "reset"} : StatusCommand(u, c)

SpecAdmin == Init /\ [][NextAdmin]_vars

----------------------------------------------------------------------------
(* The message turns of a session with an enabled scene, any one store     *)
(* write of a turn failing                                                  *)

NextFaults ==
    \/ Tick
    \/ \E m \in UserMessages, r \in ReplyOutcomes,
          p \in {PlannerDict(EmptyDict),
                 PlannerDict((K_UPDATES :> DictV(("pleasure_value" :> IntV(60)))))},
          f \in {"none", "scene", "status", "history"} :
          MessageTurn("u1", m, p, r, f)

SpecFaults == InitPipeline /\ [][NextFaults]_vars

----------------------------------------------------------------------------
(* SceneFormatHandler.execute as the event loop runs it: the handler awaits *)
(* the planner and the reply, and the turn of another message of the        *)
(* session runs meanwhile. A turn is two steps: up to the await of the      *)
(* reply, and from the reply on.                                            *)

\* execute up to "await self._generate_scene_reply": the status row is
\* created and read, the planner's answer is normalized and validated
\* against the status read
TurnRead(slot, user_id, user_message, planner, max_history) ==
    \E session_id \in {resolve_active_state(scene, TheChat, user_id)} :
    \E current_state \in {scene[session_id]} :
      /\ ~inflight[slot].busy
      /\ current_state # NoRow
      /\ current_state.enabled = 1
      /\ Len(history[session_id]) + Cardinality({i \in DOMAIN inflight : inflight[i].busy})
            < max_history
      /\ \E st1 \in {init_character_status(status, session_id)} :
         \E character_status \in {StatusOrEmpty(st1, session_id)} :
           /\ status' = st1
           /\ inflight' = [inflight EXCEPT ![slot] =
                  [busy |-> TRUE, sid |-> session_id, user_message |-> user_message,
                   current_state |-> current_state, cur |-> character_status,
                   decision |-> Handler_plan_state_changes(planner, character_status)]]
           /\ last' = [op |-> "turn_read", slot |-> slot, sid |-> session_id]
      /\ UNCHANGED <<scene, history, now, admin_mode_enabled, llm, sched>>

\* execute from the reply on: nothing for a failed reply; else
\* _update_scene_state (the status is read again and the validated deltas
\* are added to it) and add_scene_history
TurnPersist(slot, reply) ==
    /\ inflight[slot].busy
    /\ \E turn \in {inflight[slot]} :
         /\ IF ReplyFailed(reply)
            THEN UNCHANGED <<scene, status, history>>
            ELSE \E location \in {FinalField(turn.decision, K_LOC_CHANGED, K_NEW_LOC,
                                             turn.current_state.location)} :
                 \E clothing \in {FinalField(turn.decision, K_CLOTH_CHANGED, K_NEW_CLOTH,
                                             turn.current_state.clothing)} :
                   /\ scene' = update_scene_state(scene, turn.sid, location, clothing,
                                   reply.scene,
                                   derive_last_activity(turn.user_message, turn.decision,
                                                        location, clothing),
                                   now)
                   /\ status' = MergeStatus(status, turn.sid, turn.decision)
                   /\ history' = add_scene_history(history, turn.sid, location, clothing,
                                     reply.scene, turn.user_message, reply.scene)
         /\ last' = [op |-> "turn_persist", slot |-> slot, sid |-> turn.sid,
                     cur |-> turn.cur, decision |-> turn.decision,
                     reply_ok |-> ~ReplyFailed(reply),
                     others |-> Cardinality({i \in DOMAIN inflight : inflight[i].busy}) - 1]
    /\ inflight' = [inflight EXCEPT ![slot] = [busy |-> FALSE]]
    /\ UNCHANGED <<now, admin_mode_enabled, llm, sched>>

MaxInterleavedHistory == 3

NextInterleaved ==
    \/ \E i \in DOMAIN inflight,
          p \in {PlannerDict((K_UPDATES :> DictV(("pleasure_value" :> IntV(60))))),
                 PlannerDict((K_UPDATES :> DictV(("corruption_level" :> IntV(60))
                                                 @@ ("semen_volume" :> IntV(300)))))} :
          TurnRead(i, "u1", "nihao", p, MaxInterleavedHistory)
    \/ \E i \in DOMAIN inflight, r \in {ReplyNone, ReplyOk("woshi", "shuiyi", "changjing")} :
          TurnPersist(i, r)

SpecInterleaved == InitPipeline /\ [][NextInterleaved]_vars

----------------------------------------------------------------------------
(* core/llm_client.py: one call of LLMClient._chat_completion, an HTTP       *)
(* attempt at a time                                                        *)

\* variant: the value is taken as configured
validate_int_unclamped(value, default, min_val, max_val) ==
    IF value.t = "int" THEN value.v ELSE default

\* LLMClient._validate_int; int() raises for None and for a text that is no
\* number, the texts of the model
validate_int(value, default, min_val, max_val) ==
    IF value.t = "int" THEN Max(min_val, Min(max_val, value.v)) ELSE default

\* LLMClient(max_retries = ...) and the start of _chat_completion:
\*   attempt    the loop variable of "for attempt in range(self.max_retries)"
\*   posts      the HTTP requests sent so far
\*   first200   the request that was the first answered with status 200, or 0
LlmCall(max_retries) ==
    /\ llm.phase # "posting"
    /\ llm' = [phase |-> "posting", max_retries |-> validate_int(max_retries, 3, 1, 10),
               attempt |-> 0, posts |-> 0, first200 |-> 0]
    /\ last' = [op |-> "llm_call", max_retries |-> max_retries]
    /\ UNCHANGED <<scene, status, history, now, admin_mode_enabled, inflight, sched>>

\* variant: a rate-limit response ends the call like every other 4xx
LlmAttemptRetries_no429(response) ==
    \/ response.k \in {"timeout", "client_error"}
    \/ response.k = "status" /\ response.status = 200
    \/ response.k = "status" /\ response.status >= 500

\* the request of one pass of the loop is not the last one the loop may send:
\* a timeout, an aiohttp.ClientError, a 200 whose body raises (no
\* choices[0].message.content), a 429 (continue) and a status >= 500 go on
\* to the next pass; every other status breaks
LlmAttemptRetries(response) ==
    \/ response.k \in {"timeout", "client_error"}
    \/ response.k = "status" /\ response.status = 200
    \/ response.k = "status" /\ response.status = 429
    \/ response.k = "status" /\ response.status >= 500

\* one pass of the loop of _chat_completion: session.post and its outcome
LlmAttempt(response) ==
    /\ llm.phase = "posting"
    /\ llm' = [llm EXCEPT
                 !.posts = @ + 1,
                 !.first200 = IF @ = 0 /\ response.k = "status" /\ response.status = 200
                              THEN llm.posts + 1 ELSE @,
                 !.attempt = @ + 1,
                 !.phase = IF /\ response.k = "status" /\ response.status = 200
                              /\ response.content
                           THEN "returned"
                           ELSE IF LlmAttemptRetries(response) /\ llm.attempt + 1 < llm.max_retries
                           THEN "posting"
                           ELSE "raised"]
    /\ last' = [op |-> "llm_attempt", response |-> response]
    /\ UNCHANGED <<scene, status, history, now, admin_mode_enabled, inflight, sched>>

NextLlm ==
    \/ \E n \in {IntV(-1), IntV(0), IntV(2), IntV(3), IntV(11), StrV("abc")} : LlmCall(n)
    \/ \E response \in
          {[k |-> "status", status |-> 200, content |-> TRUE],
           \* 200 with a body that holds no completion
           [k |-> "status", status |-> 200, content |-> FALSE],
           [k |-> "status", status |-> 429, content |-> FALSE],
           [k |-> "status", status |-> 500, content |-> FALSE],
           [k |-> "status", status |-> 503, content |-> FALSE],
           [k |-> "status", status |-> 400, content |-> FALSE],
           [k |-> "status", status |-> 404, content |-> FALSE],
           [k |-> "timeout"], [k |-> "client_error"]} :
          LlmAttempt(response)

SpecLlm == Init /\ [][NextLlm]_vars

----------------------------------------------------------------------------
(* handlers/schedule_handler.py: the start-up check and the daily loop of   *)
(* one process. The calendar of sched is the date and whether the            *)
(* configured time of day (scene.schedule.time) has passed on it.           *)

MaxDate == 3

\* DailyScheduleEventHandler.execute, on an ON_START event: the first event
\* of the process runs _check_and_generate_if_needed and starts the
\* scheduler; generated: whether generate_schedule stored a schedule
OnStart(auto_schedule_enabled, generated) ==
    /\ sched' =
          IF sched.started THEN sched
          ELSE LET stored == sched.last_generated # sched.date /\ generated
               IN [sched EXCEPT
                     !.started = TRUE,
                     !.generated = IF stored THEN Append(@, sched.date) ELSE @,
                     !.last_generated = IF stored THEN sched.date ELSE @,
                     \* ScheduleScheduler.start and the first pass of the loop
                     \* up to its sleep
                     !.loops = IF auto_schedule_enabled THEN @ + 1 ELSE @,
                     !.target = IF ~auto_schedule_enabled THEN @
                                ELSE IF sched.past THEN sched.date + 1 ELSE sched.date]
    /\ last' = [op |-> "on_start", first |-> ~sched.started]
    /\ UNCHANGED <<scene, status, history, now, admin_mode_enabled, inflight, llm>>

\* ScheduleScheduler._schedule_loop, from the end of its sleep to the next
\* sleep
SchedulerWake(generated) ==
    /\ sched.loops > 0
    /\ sched.target = sched.date
    /\ sched.past
    /\ sched' =
          IF sched.last_execution_date = sched.date
          THEN [sched EXCEPT !.target = sched.date + 1]
          ELSE [sched EXCEPT
                  !.generated = IF generated THEN Append(@, sched.date) ELSE @,
                  !.last_generated = IF generated THEN sched.date ELSE @,
                  !.last_execution_date = sched.date,
                  !.target = sched.date + 1]
    /\ last' = [op |-> "scheduler_wake", date |-> sched.date]
    /\ UNCHANGED <<scene, status, history, now, admin_mode_enabled, inflight, llm>>

\* the calendar moves on: to the configured time of the date, then to the
\* next date; the loop sleeps no longer than to its time
DayTick ==
    /\ ~(sched.loops > 0 /\ sched.target = sched.date /\ sched.past)
    /\ sched.past => sched.date < MaxDate
    /\ sched' = IF sched.past
                THEN [sched EXCEPT !.date = @ + 1, !.past = FALSE]
                ELSE [sched EXCEPT !.past = TRUE]
    /\ last' = [op |-> "day_tick"]
    /\ UNCHANGED <<scene, status, history, now, admin_mode_enabled, inflight, llm>>

NextSched ==
    \/ \E e \in BOOLEAN, g \in BOOLEAN : OnStart(e, g)
    \/ \E g \in BOOLEAN : SchedulerWake(g)
    \/ DayTick

SpecSched == Init /\ [][NextSched]_vars

----------------------------------------------------------------------------
(* Properties *)

\* C1: for each of the five bounded numeric fields, a current value v inside
\* the field's bound and a numeric incoming delta, the delta d' that
\* validate_state_decision returns satisfies lower <= v + d' <= upper, with
\* pleasure [0, threshold], corruption [0, 100], semen [0, 500],
\* anal [0, 100], capacity [50, 300].
ValidatedDeltaKeepsBounds ==
    last.op = "validate" =>
        LET lower == [pleasure_value |-> 0, corruption_level |-> 0, semen_volume |-> 0,
                      anal_development |-> 0, vaginal_capacity |-> 50]
            upper == [pleasure_value |-> last.cur.pleasure_threshold,
                      corruption_level |-> 100, semen_volume |-> 500,
                      anal_development |-> 100, vaginal_capacity |-> 300]
        IN \A f \in DOMAIN lower :
              (/\ f \in DOMAIN last.input
               /\ f \in DOMAIN last.result
               /\ lower[f] <= last.cur[f]
               /\ last.cur[f] <= upper[f])
              => /\ lower[f] <= last.cur[f] + last.result[f].v
                 /\ last.cur[f] + last.result[f].v <= upper[f]

\* C4: after ensure_status_consistency the wetness is at least the floor of
\* the highest threshold that final_pleasure meets: final_pleasure >= 30,
\* 50, 70, 90 implies a resulting wetness of at least weishi, shirun, yinshi,
\* aiyehengliu; final_pleasure 55 with wetness zhengchang yields shirun.
ArousalImpliesMinimumWetness ==
    last.op = "consistency" =>
        LET delta == IF "pleasure_value" \in DOMAIN last.input
                     THEN last.input["pleasure_value"].v ELSE 0
            final_pleasure == IF last.cur.pleasure_value + delta < 0 THEN 0
                              ELSE last.cur.pleasure_value + delta
            wetness == IF "vaginal_wetness" \in DOMAIN last.result
                       THEN last.result["vaginal_wetness"].v
                       ELSE last.cur.vaginal_wetness
            level == CHOOSE i \in 1..Len(WETNESS_LEVELS) : WETNESS_LEVELS[i] = wetness
        IN /\ final_pleasure >= 30 => level >= 2
           /\ final_pleasure >= 50 => level >= 3
           /\ final_pleasure >= 70 => level >= 4
           /\ final_pleasure >= 90 => level >= 5
           /\ (final_pleasure = 55 /\ last.cur.vaginal_wetness = "zhengchang"
               /\ "vaginal_wetness" \notin DOMAIN last.input)
              => wetness = "shirun"

\* C9: when validate_state_decision triggers a climax (current pleasure plus
\* the clamped delta reaches the threshold), the validated updates carry the
\* climax-aftermath text as physiological_state, also when the decision
\* supplies a physiological_state of its own.
ClimaxForcesAftermathText ==
    (/\ last.op = "validate"
     /\ "pleasure_value" \in DOMAIN last.input
     /\ last.cur.pleasure_value + Min(60, Max(-100, last.input["pleasure_value"].v))
            >= last.cur.pleasure_threshold)
    => /\ "physiological_state" \in DOMAIN last.result
       /\ last.result["physiological_state"].v = CLIMAX_TEXT

\* C2: after any sequence of turns from a default status (time decay,
\* validation, scene-type decay, consistency pass, persisted additive merge)
\* the persisted pleasure_value is within [0, pleasure_threshold].
PersistedPleasureInRange ==
    \A s \in Sessions :
        status[s] # NoRow =>
            /\ 0 <= status[s].pleasure_value
            /\ status[s].pleasure_value <= status[s].pleasure_threshold

\* C3: whenever the current pleasure_value plus the clamped incoming delta
\* reaches pleasure_threshold, the pleasure_value persisted by the turn is
\* exactly threshold \div 4, whatever the scene type.
ClimaxPersistsQuarterThreshold ==
    (/\ last.op = "turn"
     /\ last.reply_ok
     /\ last.planner.k = "dict"
     /\ "pleasure_value" \in DOMAIN UpdatesOf(last.planner.d)
     /\ last.cur.pleasure_value
          + Min(60, Max(-100, UpdatesOf(last.planner.d)["pleasure_value"].v))
          >= last.cur.pleasure_threshold)
    => status[last.sid].pleasure_value = last.cur.pleasure_threshold \div 4

\* C3 witness: a turn whose delta reached the threshold was persisted
ClimaxTurnPersisted ==
    /\ last.op = "turn"
    /\ last.reply_ok
    /\ last.planner.k = "dict"
    /\ "pleasure_value" \in DOMAIN UpdatesOf(last.planner.d)
    /\ last.cur.pleasure_value
         + Min(60, Max(-100, UpdatesOf(last.planner.d)["pleasure_value"].v))
         >= last.cur.pleasure_threshold
    /\ status[last.sid].pleasure_value = 25

JsonFieldsKeepShape ==
    LET Delimited(text, open, close) ==
            /\ Len(text) >= 2
            /\ SubSeq(text, 1, 1) = open
            /\ SubSeq(text, Len(text), Len(text)) = close
    IN \A s \in Sessions :
          status[s] # NoRow =>
              /\ \A f \in {"inventory", "semen_sources", "vaginal_foreign"} :
                    Delimited(status[s][f], "[", "]")
              /\ \A f \in {"fetishes", "permanent_mods", "body_condition"} :
                    Delimited(status[s][f], "{", "}")

\* C6: validate_state_decision drops every key of the update map that is not
\* a recognised status field (the update {"totally_unknown_field": 999}
\* gives an empty validated map), and no column is written for such a key:
\* the rows keep their columns and pleasure_threshold keeps its value.
UnknownKeysDropped ==
    /\ (last.op = "turn" /\ last.planner.k = "dict")
       => /\ DOMAIN UpdatesOf(last.decision) \subseteq
                {"pleasure_value", "corruption_level", "semen_volume",
                 "physiological_state", "vaginal_state", "vaginal_wetness",
                 "pregnancy_status", "pregnancy_source", "pregnancy_counter",
                 "semen_sources", "vaginal_foreign", "inventory", "fetishes",
                 "permanent_mods", "body_condition", "anal_development",
                 "vaginal_capacity"}
          /\ DOMAIN UpdatesOf(last.planner.d) = {"totally_unknown_field"}
             => UpdatesOf(last.decision) = EmptyDict
    /\ \A s \in Sessions :
          status[s] # NoRow =>
              /\ DOMAIN status[s] = DOMAIN DefaultStatus
              /\ status[s].pleasure_threshold = 100

\* C6 witness: a persisted turn whose planner updated pleasure_threshold and
\* chat_id next to the inventory: only the inventory was written
UnknownKeysTurnPersisted ==
    /\ last.op = "turn"
    /\ last.reply_ok
    /\ last.planner.k = "dict"
    /\ {"pleasure_threshold", "chat_id"} \subseteq DOMAIN UpdatesOf(last.planner.d)
    /\ DOMAIN UpdatesOf(last.decision) = {"inventory"}
    /\ status[last.sid].inventory # last.cur.inventory

\* C7: a turn whose reply generation fails commits nothing: the scene
\* states, the character status rows (their existence and every field) and
\* the histories are after the turn what they were before it.
FailedReplyCommitsNothing ==
    [][(last'.op = "turn" /\ ~last'.reply_ok) => UNCHANGED <<scene, status, history>>]_vars

\* C10: when the planner call raises or its output is not a decision, the
\* planner step returns the default decision (no change of location or
\* clothing, empty new location and clothing, empty updates) and the turn
\* goes on with no change of the status.
PlannerFailureGivesDefaultDecision ==
    (last.op = "turn" /\ last.planner.k \in {"raise", "none", "list"})
    => /\ last.decision =
             ("didianbianhua" :> [t |-> "bool", v |-> FALSE])
             @@ ("zhuozhuangbianhua" :> [t |-> "bool", v |-> FALSE])
             @@ ("xindidian" :> [t |-> "str", v |-> ""])
             @@ ("xinzhuozhuang" :> [t |-> "str", v |-> ""])
             @@ ("juesezhuangtaigengxin" :> [t |-> "dict", v |-> <<>>])
       /\ last.preview = last.cur
       /\ last.reply_ok => status[last.sid] = last.cur

\* C10 witness: a turn whose planner call raised went on to a persisted reply
PlannerRaisedTurnPersisted ==
    /\ last.op = "turn"
    /\ last.planner.k = "raise"
    /\ last.reply_ok
    /\ Len(history[last.sid]) > 0
    /\ status[last.sid] = last.cur

TimeDecayWritesExactlyWhenDue ==
    last.op = "time_decay" =>
        LET due == /\ last.input >= 0
                   /\ last.at - last.input > 30
                   /\ last.cur.pleasure_value > 0
            v == last.cur.pleasure_value
        IN /\ last.result = due
           /\ due => status["c1:u1"] =
                         [last.cur EXCEPT !.pleasure_value = v - (IF v < 20 THEN v ELSE 20)]
           /\ ~due => status["c1:u1"] = last.cur

\* C12 witness: a call 31 minutes after the last update, at pleasure 55,
\* returned true and stored 35
TimeDecayStoredThirtyFive ==
    /\ last.op = "time_decay"
    /\ last.result
    /\ last.at - last.input = 31
    /\ last.cur.pleasure_value = 55
    /\ status["c1:u1"].pleasure_value = 35

\* C13: the planner step removes all whitespace from every key of the
\* decision and of its update map, so "di dian bian hua" is recognised as
\* didianbianhua, and the decision it hands on always contains
\* didianbianhua and zhuozhuangbianhua (default false), xindidian and
\* xinzhuozhuang (default "") and juesezhuangtaigengxin (a dict, default {}).
NormalisedDecisionIsComplete ==
    last.op = "plan" =>
        LET NoSpace(k) == \A i \in 1..Len(k) : SubSeq(k, i, i) # " "
            given == IF last.input.k = "dict" /\ DOMAIN last.input.d # {}
                     THEN {RemoveWhitespace(k) : k \in DOMAIN last.input.d} ELSE {}
            r == last.result
        IN /\ {"didianbianhua", "zhuozhuangbianhua", "xindidian", "xinzhuozhuang",
                "juesezhuangtaigengxin"} \subseteq DOMAIN r
           /\ \A k \in DOMAIN r : NoSpace(k)
           /\ given \subseteq DOMAIN r
           /\ r["juesezhuangtaigengxin"].t = "dict"
           /\ \A k \in DOMAIN r["juesezhuangtaigengxin"].v : NoSpace(k)
           /\ \A k \in {"didianbianhua", "zhuozhuangbianhua"} :
                 k \notin given => r[k] = [t |-> "bool", v |-> FALSE]
           /\ \A k \in {"xindidian", "xinzhuozhuang"} :
                 k \notin given => r[k] = [t |-> "str", v |-> ""]
           /\ given \cap {"juesezhuangtaigengxin", "juesezhuangtai", "zhuangtaigengxin"} = {}
                 => r["juesezhuangtaigengxin"].v = <<>>
           /\ (last.input.k = "dict"
               /\ "di dian bian hua" \in DOMAIN last.input.d
               /\ last.input.d["di dian bian hua"] = [t |-> "str", v |-> "true"])
              => r["didianbianhua"] = [t |-> "bool", v |-> TRUE]

\* C13 witness: a planner answer with whitespace in its keys was normalised
\* and completed with the default for the location keys it left out
SpacedKeysNormalised ==
    /\ last.op = "plan"
    /\ last.input.k = "dict"
    /\ " zhuozhuang bianhua" \in DOMAIN last.input.d
    /\ last.result["zhuozhuangbianhua"] = [t |-> "bool", v |-> TRUE]
    /\ last.result["xinzhuozhuang"].v = "qunzi"
    /\ last.result["didianbianhua"] = [t |-> "bool", v |-> FALSE]
    /\ DOMAIN last.result["juesezhuangtaigengxin"].v = {"pleasure_value"}

\* C14: a turn changes only the status fields present in the update map of
\* its final decision: every other field of every stored status row has
\* after the turn the value it had before it, and is not reset to its
\* default.
AbsentFieldsKeepStoredValue ==
    [][last'.op = "turn" =>
          \A s \in Sessions :
             status[s] # [absent |-> TRUE] =>
                /\ status'[s] # [absent |-> TRUE]
                /\ \A f \in DOMAIN status[s] :
                      (s # last'.sid \/ ~last'.reply_ok
                       \/ f \notin DOMAIN last'.decision["juesezhuangtaigengxin"].v)
                      => status'[s][f] = status[s][f]]_vars

\* C14 witness: a persisted turn that updated the inventory alone left the
\* pleasure_value raised by an earlier turn as it was stored
InventoryTurnKeptPleasure ==
    /\ last.op = "turn"
    /\ last.reply_ok
    /\ last.had_row
    /\ DOMAIN UpdatesOf(last.decision) = {"inventory"}
    /\ last.cur.pleasure_value = 60
    /\ status[last.sid].pleasure_value = 60
    /\ status[last.sid].inventory # last.cur.inventory

\* C15: init_character_status is idempotent: a call leaves one status row
\* for the session, holding the column defaults when the session had none
\* and every field as it was when the row existed; the rows of the other
\* sessions are left alone, and the second of two calls in a row changes
\* nothing.
InitStatusIdempotent ==
    [][last'.op = "init_status" =>
          LET s == last'.sid
          IN /\ status'[s] # [absent |-> TRUE]
             /\ status[s] = [absent |-> TRUE] =>
                   status'[s] =
                      [body_condition |-> "{}", physiological_state |-> "huxi_pingwen",
                       vaginal_state |-> "fangsong", vaginal_wetness |-> "zhengchang",
                       vaginal_capacity |-> 100, anal_development |-> 0,
                       pregnancy_status |-> "weishouyun", pregnancy_source |-> "NULL",
                       pregnancy_counter |-> 0, semen_volume |-> 0,
                       semen_sources |-> "[]", vaginal_foreign |-> "[]",
                       pleasure_value |-> 0, pleasure_threshold |-> 100,
                       corruption_level |-> 0, fetishes |-> "{}",
                       permanent_mods |-> "{}", inventory |-> "[]"]
             /\ status[s] # [absent |-> TRUE] => status'[s] = status[s]
             /\ \A o \in Sessions \ {s} : status'[o] = status[o]
             /\ (last.op = "init_status" /\ last.sid = s) => status' = status]_vars

\* C15 witness: the second of two calls in a row for a session that had no
\* row: the row of the first call is still the default one
InitStatusCalledTwice ==
    /\ last.op = "init_status"
    /\ last.sid = "c1:u2"
    /\ last.before # [absent |-> TRUE]
    /\ status["c1:u2"] = last.before
    /\ status["c1:u2"].pleasure_threshold = 100

\* C16: corruption_level never decreases and never exceeds 100 over any
\* sequence of validated merges: for a numeric planner delta the validated
\* delta lies in [0, 20] and is at most 100 - current, and a delta that ends
\* up 0 is dropped from the updates.
CorruptionOnlyGrowsToHundred ==
    [][\A s \in Sessions :
          (status[s] # [absent |-> TRUE] /\ status'[s] # [absent |-> TRUE]) =>
             LET c == status[s].corruption_level
                 d == status'[s].corruption_level
             IN /\ d >= c
                /\ d <= 100
                /\ d - c <= 20
                /\ (last'.op = "merge" /\ s = "c1:u1" /\ "corruption_level" \in DOMAIN last'.input)
                   => IF "corruption_level" \in DOMAIN last'.result
                      THEN /\ last'.result["corruption_level"].v \in 1..20
                           /\ last'.result["corruption_level"].v <= 100 - c
                           /\ d = c + last'.result["corruption_level"].v
                      ELSE /\ d = c
                           /\ last'.input["corruption_level"].v <= 0 \/ c = 100]_vars

\* C16 witness: at corruption 90 a planner delta of 30 was cut to the
\* headroom of 10 and 100 was stored
CorruptionCutToHeadroom ==
    /\ last.op = "merge"
    /\ last.cur.corruption_level = 90
    /\ last.input = ("corruption_level" :> [t |-> "int", v |-> 30])
    /\ last.result["corruption_level"].v = 10
    /\ status["c1:u1"].corruption_level = 100

\* C17: the pregnancy_counter of every persisted status row is a
\* non-negative integer after any update, whatever number the planner gave.
PregnancyCounterNonNegative ==
    \A s \in Sessions :
        status[s] # [absent |-> TRUE] => status[s].pregnancy_counter \in Nat

\* C18: session data is owned by one (chat id, user id) session: a command
\* or a message turn issued by a user works on that user's own session, and
\* leaves the scene state, the character status and the history of every
\* other session as they were, also when the user has no scene state.
SessionsOwnedByOneUser ==
    [][last'.op \in {"turn", "scene_on", "scene_off", "scene_init", "custom_init", "status"} =>
          /\ last'.sid = "c1:" \o last'.user
          /\ \A s \in Sessions :
                s # "c1:" \o last'.user =>
                   /\ scene'[s] = scene[s]
                   /\ status'[s] = status[s]
                   /\ history'[s] = history[s]]_vars

\* C19: the nai_enabled flag of a session outlives a scene clear: after
\* clear_scene_state(session), get_nai_enabled(session) returns the value it
\* had before the clear.
NaiFlagSurvivesSceneClear ==
    last.op = "clear_scene" =>
        (last.nai_before <=>
            (scene[last.sid] # [absent |-> TRUE] /\ scene[last.sid].nai_enabled = 1))

SceneOffChangesOnlyEnabledFlag ==
    [][(last'.op = "scene_off" /\ now' = now) =>
          /\ status' = status
          /\ history' = history
          /\ \A s \in Sessions :
                IF s = last'.sid /\ scene[s] # [absent |-> TRUE] /\ scene[s].enabled = 1
                THEN /\ scene'[s] # [absent |-> TRUE]
                     /\ scene'[s].enabled = 0
                     /\ \A f \in DOMAIN scene[s] \ {"enabled"} : scene'[s][f] = scene[s][f]
                ELSE scene'[s] = scene[s]]_vars

\* C21 witness: /scene off has switched off a session that keeps its
\* location, its status row and a history entry
SceneSwitchedOffKeptState ==
    /\ last.op = "scene_off"
    /\ scene[last.sid] # [absent |-> TRUE]
    /\ scene[last.sid].enabled = 0
    /\ scene[last.sid].location = "woshi"
    /\ status[last.sid] # [absent |-> TRUE]
    /\ Len(history[last.sid]) > 0

\* C22: while admin mode is on for the chat, a scene command of a user who
\* is not listed in admin.admin_users is rejected and changes nothing
\* stored: no scene state, no character status, no history, and not the
\* admin mode.
NonAdminCommandsChangeNothing ==
    [][(/\ last'.op \in {"scene_on", "scene_off", "scene_init", "custom_init",
                         "status", "nai", "admin", "rejected"}
        /\ last'.user \notin ADMIN_USERS
        /\ "c1" \in DOMAIN admin_mode_enabled
        /\ admin_mode_enabled["c1"])
       => UNCHANGED <<scene, status, history, admin_mode_enabled>>]_vars

SceneDecayCapsPositiveDeltaOnly ==
    last.op = "scene_decay" =>
        LET delta == last.input["pleasure_value"].v
            upper == CASE last.scene_type = "normal" -> 5
                       [] last.scene_type = "romantic" -> 20
                       [] last.scene_type = "intimate" -> 40
                       [] last.scene_type = "explicit" -> 60
                       [] last.scene_type = "rest" -> -5
        IN /\ DOMAIN last.result = {"pleasure_value"}
           /\ last.result["pleasure_value"].v =
                 IF delta > 0 /\ delta > upper THEN upper ELSE delta

\* C24 witness: a delta of 70 in an intimate scene came back as 40, and a
\* delta of -50 in a rest scene is what it was
IntimateDeltaCappedAtForty ==
    /\ last.op = "scene_decay"
    /\ last.scene_type = "intimate"
    /\ last.input["pleasure_value"].v = 70
    /\ last.result["pleasure_value"].v = 40

\* C25: rule B of ensure_status_consistency lowers the wetness by exactly
\* one level, and only when rule A did not adjust it, the pleasure delta is
\* below -10, final_pleasure is below 30 and the wetness index (from 0) is
\* at least 2; in every other case rule B leaves the wetness as it is.
RuleBLowersOneLevel ==
    last.op = "consistency" =>
        LET delta == IF "pleasure_value" \in DOMAIN last.input
                     THEN last.input["pleasure_value"].v ELSE 0
            final_pleasure == IF last.cur.pleasure_value + delta < 0 THEN 0
                              ELSE last.cur.pleasure_value + delta
            wetness_in == IF "vaginal_wetness" \in DOMAIN last.input
                          THEN last.input["vaginal_wetness"].v
                          ELSE last.cur.vaginal_wetness
            wetness_out == IF "vaginal_wetness" \in DOMAIN last.result
                           THEN last.result["vaginal_wetness"].v
                           ELSE last.cur.vaginal_wetness
            index_in == (CHOOSE i \in 1..5 : WETNESS_LEVELS[i] = wetness_in) - 1
            index_out == (CHOOSE i \in 1..5 : WETNESS_LEVELS[i] = wetness_out) - 1
            rule_a_adjusted == index_out > index_in
        IN /\ (delta < -10 /\ final_pleasure < 30 /\ index_in >= 2)
              => (~rule_a_adjusted /\ index_out = index_in - 1)
           /\ ~(delta < -10 /\ final_pleasure < 30 /\ index_in >= 2)
              => index_out >= index_in

\* C25 witness: a delta of -20 that leaves the pleasure below 30 took the
\* wetness from aiyehengliu one level down, to yinshi
WetnessSteppedDownOnce ==
    /\ last.op = "consistency"
    /\ last.input = ("pleasure_value" :> [t |-> "int", v |-> -20])
                     @@ ("vaginal_wetness" :> [t |-> "str", v |-> "aiyehengliu"])
    /\ last.cur.pleasure_value = 10
    /\ last.result["vaginal_wetness"].v = "yinshi"

\* C26: rule C of ensure_status_consistency writes a physiological_state
\* only when the updates carry none, the scene type is not rest and neither
\* the updated nor the current text contains gaochao, yuyun, chandou or
\* jingluan; it then writes the phrase of the tier of final_pleasure
\* (>= 80, >= 60, >= 40) and writes nothing when final_pleasure < 40.
RuleCWritesTierPhrase ==
    last.op = "consistency" =>
        LET delta == IF "pleasure_value" \in DOMAIN last.input
                     THEN last.input["pleasure_value"].v ELSE 0
            final_pleasure == IF last.cur.pleasure_value + delta < 0 THEN 0
                              ELSE last.cur.pleasure_value + delta
            given == "physiological_state" \in DOMAIN last.input
            texts == {last.cur.physiological_state} \cup
                     (IF given THEN {last.input["physiological_state"].v} ELSE {})
            orgasm == \E text \in texts :
                         \E keyword \in {"gaochao", "yuyun", "chandou", "jingluan"} :
                            \E i \in 1..Len(text) :
                               /\ i + Len(keyword) - 1 <= Len(text)
                               /\ SubSeq(text, i, i + Len(keyword) - 1) = keyword
        IN IF ~given /\ last.scene_type # "rest" /\ ~orgasm /\ final_pleasure >= 40
           THEN /\ "physiological_state" \in DOMAIN last.result
                /\ last.result["physiological_state"].v =
                      IF final_pleasure >= 80 THEN "huxi_jicu_shenti_julie_chandou"
                      ELSE IF final_pleasure >= 60 THEN "huxi_jicu_shenti_weiwei_fare"
                      ELSE "huxi_lvewei_jicu"
           ELSE IF given
                THEN last.result["physiological_state"] = last.input["physiological_state"]
                ELSE "physiological_state" \notin DOMAIN last.result

\* C26 witness: at final_pleasure 75 in a romantic scene, with no text in
\* the updates, the phrase of the tier >= 60 was written
TierSixtyPhraseWritten ==
    /\ last.op = "consistency"
    /\ last.scene_type = "romantic"
    /\ last.cur.pleasure_value = 55
    /\ last.input = ("pleasure_value" :> [t |-> "int", v |-> 20])
    /\ "physiological_state" \in DOMAIN last.result
    /\ last.result["physiological_state"].v = "huxi_jicu_shenti_weiwei_fare"

\* C27: for semen_volume, anal_development and vaginal_capacity, validate
\* limits a numeric delta to at most +150 / +20 / +40 and at least
\* -500 / -100 / -100 and then adjusts it so that current + delta lies in
\* [0, 500] / [0, 100] / [50, 300], for every current value in that range.
StepLimitedThenKeptInRange ==
    last.op = "validate" =>
        LET step == [semen_volume |-> <<-500, 150>>, anal_development |-> <<-100, 20>>,
                     vaginal_capacity |-> <<-100, 40>>]
            range == [semen_volume |-> <<0, 500>>, anal_development |-> <<0, 100>>,
                      vaginal_capacity |-> <<50, 300>>]
            Clip(x, b) == IF x < b[1] THEN b[1] ELSE IF x > b[2] THEN b[2] ELSE x
        IN \A f \in DOMAIN step :
              (/\ f \in DOMAIN last.input
               /\ range[f][1] <= last.cur[f]
               /\ last.cur[f] <= range[f][2])
              => /\ f \in DOMAIN last.result
                 /\ last.result[f].v =
                       Clip(last.cur[f] + Clip(last.input[f].v, step[f]), range[f])
                       - last.cur[f]
                 /\ range[f][1] <= last.cur[f] + last.result[f].v
                 /\ last.cur[f] + last.result[f].v <= range[f][2]

\* C27 witness: at capacity 100 a delta of -150 was limited to -100 and then
\* adjusted to -50, which gives the capacity 50
CapacityDeltaAdjustedToFloor ==
    /\ last.op = "validate"
    /\ last.cur.vaginal_capacity = 100
    /\ last.input = ("vaginal_capacity" :> [t |-> "int", v |-> -150])
    /\ last.result = ("vaginal_capacity" :> [t |-> "int", v |-> -50])

\* C28: the writes of a turn whose reply was generated are all-or-nothing,
\* also when a store write fails: either the history has the turn's entry,
\* the scene state holds the reply's scene at the time of the turn and the
\* status is the stored one merged with the turn's updates, or the scene
\* state, the status and the history are what they were when the turn's
\* status was read.
TurnWritesAllOrNothing ==
    [][(last'.op = "turn" /\ last'.reply_ok /\ now' = now) =>
          LET s == last'.sid
              read == init_character_status(status, s)
          IN \/ /\ Len(history'[s]) = Len(history[s]) + 1
                /\ scene'[s].scene_description = history'[s][Len(history'[s])].scene_description
                /\ scene'[s].last_update_time = now
                /\ status' = MergeStatus(read, s, last'.decision)
             \/ /\ history' = history
                /\ scene' = scene
                /\ status' = read]_vars

PreviewAddsDeltasAndOverwrites ==
    last.op = "turn" =>
        LET su == last.decision["juesezhuangtaigengxin"].v
            numeric == {"pleasure_value", "corruption_level", "semen_volume",
                        "anal_development", "vaginal_capacity"}
        IN /\ DOMAIN last.preview = DOMAIN last.cur \cup DOMAIN su
           /\ \A f \in DOMAIN last.preview :
                 last.preview[f] =
                    IF f \notin DOMAIN su THEN last.cur[f]
                    ELSE IF f \in numeric /\ su[f].t = "int" THEN last.cur[f] + su[f].v
                    ELSE su[f].v
           /\ ~last.reply_ok => status[last.sid] = last.cur

\* C30 witness: a turn whose reply failed read the pleasure 60 and previewed
\* 10 for the delta -50; the store still holds 60
PreviewLeftStoreAtSixty ==
    /\ last.op = "turn"
    /\ ~last.reply_ok
    /\ last.cur.pleasure_value = 60
    /\ last.decision["juesezhuangtaigengxin"].v = ("pleasure_value" :> [t |-> "int", v |-> -50])
    /\ last.preview.pleasure_value = 10
    /\ status[last.sid].pleasure_value = 60

NormalizedUpdatesIsTheMapOfTheThreeKeys ==
    (last.op = "plan" /\ ~PlannerFailed(last.input)) =>
        LET d == last.input.d
            names == <<"juesezhuangtaigengxin", "juesezhuangtai", "zhuangtaigengxin">>
            HoldsMap(i) ==
                \E rk \in DOMAIN d : RemoveWhitespace(rk) = names[i] /\ d[rk].t = "dict"
            updates == last.result["juesezhuangtaigengxin"]
        IN /\ updates.t = "dict"
           /\ IF \E i \in 1..3 : HoldsMap(i)
              THEN LET i == CHOOSE i \in 1..3 : HoldsMap(i) /\ \A j \in 1..(i - 1) : ~HoldsMap(j)
                       rk == CHOOSE rk \in DOMAIN d :
                                RemoveWhitespace(rk) = names[i] /\ d[rk].t = "dict"
                   IN updates.v = clean_dict_key_spaces(d[rk].v)
              ELSE DOMAIN updates.v = {}

\* C33: a /sc init whose generation fails (no current schedule entry, the
\* model call raises, or its output does not parse) leaves the scene
\* states, the histories and the character statuses as they were, as a
\* failed /sc init <description> does.
FailedInitKeepsPreviousState ==
    [][(last'.op \in {"scene_init", "custom_init"} /\ ~last'.generated)
          => UNCHANGED <<scene, status, history>>]_vars

\* C38: a physiological_state text that rule C wrote in an earlier turn
\* does not block rule C: after a persisted turn of a scene type other than
\* rest whose validated decision carried no physiological_state, read
\* from a status whose text is the default or one of rule C's three
\* phrases, with final_pleasure >= 40, the stored text is the phrase of
\* final_pleasure's tier.
RuleCTextFollowsTier ==
    (/\ last.op = "turn"
     /\ last.reply_ok
     /\ last.scene_type # "rest"
     /\ "physiological_state" \notin DOMAIN last.validated["juesezhuangtaigengxin"].v
     /\ last.cur.physiological_state \in
            {"huxi_pingwen", "huxi_lvewei_jicu", "huxi_jicu_shenti_weiwei_fare",
             "huxi_jicu_shenti_julie_chandou"}
     /\ last.preview.pleasure_value >= 40)
    => status[last.sid].physiological_state =
          (IF last.preview.pleasure_value >= 80 THEN "huxi_jicu_shenti_julie_chandou"
           ELSE IF last.preview.pleasure_value >= 60 THEN "huxi_jicu_shenti_weiwei_fare"
           ELSE "huxi_lvewei_jicu")

\* C32: time decay is charged at most once per idle gap: when a turn has
\* applied time decay, the next turn of the session, arriving less than 30
\* minutes later, applies none, whether or not the first turn's reply was
\* generated.
TimeDecayOncePerIdleGap ==
    [][(/\ last.op = "turn"
        /\ last.time_decayed
        /\ last'.op = "turn"
        /\ last'.sid = last.sid
        /\ now' = now
        /\ now - last.at < 30)
       => ~last'.time_decayed]_vars

\* C34: after an HTTP attempt that was answered with a status >= 500 or
\* with 429, that timed out or that failed in the network, the client
\* sends the request again while attempts are left; after any other status
\* from 400 to 499 it sends nothing more and the call has failed.
LlmRetriesAllButOther4xx ==
    [][(llm.phase = "posting" /\ last'.op = "llm_attempt" /\ llm'.posts = llm.posts + 1) =>
          LET r == last'.response
          IN /\ (/\ \/ r.k \in {"timeout", "client_error"}
                    \/ r.k = "status" /\ (r.status >= 500 \/ r.status = 429)
                 /\ llm'.posts < llm.max_retries)
                => llm'.phase = "posting"
             /\ (r.k = "status" /\ r.status >= 400 /\ r.status < 500 /\ r.status # 429)
                => llm'.phase = "raised"]_vars

\* C34 witness: the second request was answered with 429 and a third one is
\* about to be sent
RateLimitedRequestRetried ==
    /\ last.op = "llm_attempt"
    /\ last.response.k = "status"
    /\ last.response.status = 429
    /\ llm.posts = 2
    /\ llm.phase = "posting"

\* C35: max_retries is in 1..10 and a call sends at most max_retries
\* requests: it has ended once they are used up; it returns on the first
\* response with status 200, and it fails, no response having had status
\* 200, when the requests are used up or a status that is not retried came.
LlmCallEndsAtFirst200OrFails ==
    llm.phase # "idle" =>
        /\ llm.max_retries \in 1..10
        /\ llm.posts <= llm.max_retries
        /\ llm.phase = "posting" => llm.posts < llm.max_retries
        /\ llm.phase = "returned" =>
              /\ last.response.k = "status" /\ last.response.status = 200
              /\ llm.first200 = llm.posts
        /\ llm.phase = "raised" =>
              /\ llm.first200 = 0
              /\ \/ llm.posts = llm.max_retries
                 \/ /\ last.response.k = "status"
                    /\ last.response.status \in 400..499 \ {429}

\* C35, amended: ... it returns on the first response with status 200 whose
\* body holds a completion, and it fails, no such response having come,
\* when the requests are used up or a status that is not retried came.
LlmCallEndsAtFirstCompletionOrFails ==
    llm.phase # "idle" =>
        /\ llm.max_retries \in 1..10
        /\ llm.posts <= llm.max_retries
        /\ llm.phase = "posting" => llm.posts < llm.max_retries
        /\ llm.phase = "returned" =>
              /\ last.response.k = "status" /\ last.response.status = 200
              /\ last.response.content
        /\ llm.phase = "raised" =>
              /\ ~(last.response.k = "status" /\ last.response.status = 200
                    /\ last.response.content)
              /\ \/ llm.posts = llm.max_retries
                 \/ /\ last.response.k = "status"
                    /\ last.response.status \in 400..499 \ {429}

\* C35 witness: max_retries was configured as 11; the call failed with its
\* tenth request
TenthRequestEndedTheCall ==
    /\ llm.phase = "raised"
    /\ llm.max_retries = 10
    /\ llm.posts = 10
    /\ last.op = "llm_attempt"
    /\ last.response.k = "timeout"

\* C31: when turns of one session interleave, each validated against the
\* status it read, the persisted values stay within the upper bounds
\* (pleasure_value <= pleasure_threshold, corruption_level <= 100,
\* semen_volume <= 500, anal_development <= 100, vaginal_capacity <= 300).
InterleavedTurnsKeepUpperBounds ==
    \A s \in DOMAIN status :
        status[s] # [absent |-> TRUE] =>
            /\ status[s].pleasure_value <= status[s].pleasure_threshold
            /\ status[s].corruption_level <= 100
            /\ status[s].semen_volume <= 500
            /\ status[s].anal_development <= 100
            /\ status[s].vaginal_capacity <= 300

\* C39: the start-up check and the scheduler loop store an automatically
\* generated schedule at most once on each date, and at most one scheduler
\* loop runs in the process.
ScheduleGeneratedOncePerDate ==
    /\ \A d \in 1..MaxDate :
          Cardinality({i \in 1..Len(sched.generated) : sched.generated[i] = d}) <= 1
    /\ sched.loops <= 1

====
